---- MODULE Spec2Model ----
(***************************************************************************)
(* State-machine model of the archive scanning and tag-resolution pipeline *)
(* of RD-Minecraft-Tools.  The module holds four sub-models, each with its *)
(* own specification over its own variables:                               *)
(*   SpecClean    the identifier normalizer (IdentifierCleaner.clean)      *)
(*   SpecResolve  the tag reference resolver (process_tag_jar)             *)
(*   SpecBatch    the batched output writers (core/scanner tags, recipes)  *)
(*   SpecScan     the concurrent scan orchestrator (ScannerService)        *)
(* While one sub-model runs, the variables of the others stay idle.        *)
(***************************************************************************)
EXTENDS Integers, Sequences, FiniteSets, TLC

VARIABLES
    \* ---- identifier normalizer ----
    c_pc,           \* position in clean(): "idle" | "loop" | "return" | "done"
    c_input,        \* the identifier the first call was given
    c_extensions,   \* self.extensions
    identifier,     \* local `identifier` of clean()
    previous,       \* local `previous`
    iterations,     \* local `iterations`
    c_call,         \* 1: clean(x) is running, 2: clean(clean(x)) is running
    c_first,        \* value returned by the first call
    c_passes,       \* how many times the loop body ran in the current call
    \* ---- tag reference resolver (process_tag_jar) ----
    r_pc,           \* "idle" | "while" | "for_tag" | "for_ref" | "resolved" | "raised"
    jar_files,      \* zip entry name -> [items, refs] as extract_items_from_tag_json reads it
    tags_data,      \* dict tag_id -> set of items
    tag_references, \* dict tag_id -> set of tag references
    tr_order,       \* insertion order of the keys of tag_references
    changed,        \* local `changed`
    iteration,      \* local `iteration`
    r_snapshot,     \* list(tag_references.items()) of the running pass (the keys)
    r_idx,          \* position of the outer for-loop in r_snapshot
    tag_id,         \* loop variable `tag_id`
    r_todo,         \* references of tag_id the inner for-loop has not visited yet
    ref_ns,         \* local `ref_ns` (Unbound until first assigned)
    ref_path,       \* local `ref_path`
    r_run,          \* 1: first run, 2: the same archive with its entries in another order
    r_input,        \* the tag records and entry orders both runs start from
    r_result1,      \* tags_data at the end of the first run
    peer_active,    \* another worker of the pool is inside process_tag_jar for its archive
    \* ---- batched writers (discover_and_save_tags_incremental, ..._recipes_incremental) ----
    b_pc,           \* position in the writer
    b_kind,         \* "tags" | "recipes": which of the two writers runs
    mods_list,      \* list(mods.items()): per mod its id and the entries of its archive
    batch_start,    \* loop variable `batch_start`
    b_mod,          \* index in mods_list of the mod being scanned
    b_entry,        \* index of the archive entry being processed
    b_items,        \* items of the current tag the inner for-loop has not visited yet
    open_handles,   \* path -> [mode, buf] of every file object that is open
    file_cache,     \* <<cache name, key>> -> path: the dicts of cached handles
    disk,           \* path -> lines of the file on disk
    item_to_tags_written,   \* item_key -> set of tag entries written for it
    recipe_counts_by_type,  \* recipe type -> count
    touched,        \* output paths opened since the current batch began
    b_log,          \* records the logging handlers of the writers have emitted
    rd_args,        \* the arguments of the read_item_lines call on an output file
    rd_yield,       \* what that call has yielded
    \* ---- scan orchestrator (ScannerService.run_scan, execute_concurrent) ----
    s_pc,           \* position of the thread that called run_scan
    jars,           \* find_jars(config.input_dir): the archives, in submission order
    max_workers,    \* config.max_workers of the running scan
    workers_n,      \* the worker count of the second scan
    unwritable,     \* raw output paths that cannot be opened for appending
    task,           \* per archive: the position of its process_wrapper call
    all_results,    \* the list `all_results` the tasks extend
    write_locks,    \* _write_locks: path -> the lock object created for the path
    write_locks_lock,   \* the task inside `with _write_locks_lock` (0: none)
    lock_objs,      \* per threading.Lock() object created: the task holding it (0: none)
    invoked,        \* per archive: the number of calls of the process function for it
    got,            \* per task: the path, the `not in` test and the result of its get_lock call
    s_disk,         \* path -> lines; a raw line carries the append call that wrote it
    s_log,          \* level and subject of every log() call, with its count
    s_run,          \* 1: the scan with one worker, 2: the scan with workers_n workers
    s_out1,         \* the cleaned files the first scan left
    \* ---- entry loop of an archive scan (process_jar) ----
    e_pc,           \* "idle" | "loop" | "done"
    e_kind,         \* "asset": BaseScannerProcessor.process_jar, "recipe": recipe_scanner
    zf_namelist,    \* zf.namelist(): the entries of the archive, each with its content
    namespace_filter,   \* the namespace filter, "" when none is given
    e_idx,          \* index of the entry the loop is at
    e_work,         \* the operations done on entries so far: <<operation, entry index>>
    e_found,        \* results_by_namespace / per_namespace: namespace -> ids
    \* ---- mod discovery and the scans over its result (core.scanner.scan) ----
    d_pc,           \* "idle" | "discover" | "tags" | "recipes" | "done"
    found_jars,     \* jar_files = list(mods_path.glob('*.jar')), in the order glob gives
    d_idx,          \* index the loop of the current phase is at
    mods_items,     \* the dict mods, as its (mod_id, jar_path) items in insertion order
    tag_scans,      \* the archives tag discovery has opened, in order
    recipe_scans    \* the archives recipe discovery has opened, in order

cleanVars == <<c_pc, c_input, c_extensions, identifier, previous, iterations,
               c_call, c_first, c_passes>>

resolveVars == <<r_pc, jar_files, tags_data, tag_references, tr_order, changed, iteration,
                 r_snapshot, r_idx, tag_id, r_todo, ref_ns, ref_path, r_run, r_input,
                 r_result1, peer_active>>

batchVars == <<b_pc, b_kind, mods_list, batch_start, b_mod, b_entry, b_items, open_handles,
               file_cache, disk, item_to_tags_written, recipe_counts_by_type, touched,
               b_log, rd_args, rd_yield>>

scanVars == <<s_pc, jars, max_workers, workers_n, unwritable, task, all_results, write_locks,
              write_locks_lock, lock_objs, got, invoked,
              s_disk, s_log, s_run, s_out1>>

entryVars == <<e_pc, e_kind, zf_namelist, namespace_filter, e_idx, e_work, e_found>>

discoverVars == <<d_pc, found_jars, d_idx, mods_items, tag_scans, recipe_scans>>

vars == <<cleanVars, resolveVars, batchVars, scanVars, entryVars, discoverVars>>

(***************************************************************************)
(* Identifier normalizer                                                   *)
(***************************************************************************)

AFFIXES ==
    <<
      \* orientation_faces
      "_bottom", "_top", "_front", "_back", "_left", "_right", "_side", "_reverse", "_base",
      \* orientation_corners
      "_corner", "_inner", "_outer", "_noside", "_nosides", "_inside",
      \* orientation_vertical
      "_up", "_down", "_upper", "_lower", "_middle", "_mid", "_center", "_centered", "_main",
      "_full",
      \* orientation_horizontal
      "_horizontal", "_ew", "_ns", "_x", "_z",
      \* orientation_end
      "_end", "_post", "_even", "_odd", "_foot", "_head", "_far", "_gate_wall",
      \* orientation_size
      "_single", "_double", "_tall", "_plus", "_adv",
      \* state_binary
      "_open", "_opened", "_close", "_closed", "_on", "_off", "_pressed", "_extended",
      "_connected", "_occupied", "_empty", "_filled", "_drained", "_activated", "_lit",
      "_weak", "_supported", "_support", "_moist", "_unused", "_alt", "_wet", "_decorated",
      "_tied", "_extrudes", "_garnish", "_leftover", "_active", "_inactive", "_monster",
      "_player", "_emissive", "_body", "_bone", "_stabilized", "_unlinked",
      \* state_progression
      "_new", "_old", "_one", "_two", "_three", "_four", "_five", "_0", "_1", "_2", "_3", "_4",
      "_5", "_6", "_7", "_8", "_9", "_10", "0", "1", "2", "3", "4", "5", "6", "7", "8", "9",
      "10", "_age0", "_age1", "_age2", "_age3", "_age4", "_age5", "_age6", "_age7", "_age8",
      "_age9", "_age10", "_stage", "_stage0", "_stage1", "_stage2", "_stage3", "_stage4",
      "_stage5", "_stage6", "_stage7", "_stage8", "_stage9", "_stage10", "_slice0", "_slice1",
      "_slice2", "_slice3", "_slice4", "_slice5", "_slice6", "_slice7", "_slice8", "_slice9",
      "_slice10", "_level", "_level0", "_level1", "_level2", "_level3", "_level4", "_level5",
      "_level6", "_level7", "_level8", "_level9", "_level10",
      \* state_content
      "_honey", "_water",
      \* inventory
      "_inventory", "_slot",
      \* ctm_meta
      "-ctm",
      \* misc_suffixes
      "_with", "_t"
    >>

DEFAULT_EXTENSIONS == <<".png", ".jpeg", ".jpg", ".gif">>

FLUID_EXTENSIONS == <<".png", ".jpeg", ".jpg", ".gif", ".json">>

\* default of the max_iterations parameter of IdentifierCleaner / clean_identifier_thorough
CleanerMaxIterations == 100

\* str.endswith
EndsWith(s, suffix) ==
    /\ Len(s) >= Len(suffix)
    /\ SubSeq(s, Len(s) - Len(suffix) + 1, Len(s)) = suffix

\* s[:-len(suffix)]
DropSuffix(s, suffix) == SubSeq(s, 1, Len(s) - Len(suffix))

\* `for t in table: if s.endswith(t): s = s[:-len(t)]`, from table[lo] on.  The loop
\* leaves s alone up to the first entry that matches, strips that entry, and goes on
\* with the entries after it.
RECURSIVE StripEach(_, _, _)
StripEach(s, table, lo) ==
    LET matching == { i \in lo..Len(table) : EndsWith(s, table[i]) } IN
      IF matching = {} THEN s
      ELSE LET first == CHOOSE i \in matching : \A j \in matching : i <= j IN
             StripEach(DropSuffix(s, table[first]), table, first + 1)

\* One run of the loop body of clean(): the extension loop, then the affix loop.
CleanPass(s, extensions) ==
    StripEach(StripEach(s, extensions, 1), AFFIXES, 1)

\* IdentifierCleaner.clean: passes until one changes nothing, max_iterations at most
RECURSIVE CleanLoop(_, _, _, _)
CleanLoop(ident, prev, iters, extensions) ==
    IF iters >= CleanerMaxIterations THEN ident
    ELSE LET stripped == CleanPass(ident, extensions) IN
           IF stripped = prev THEN stripped
           ELSE CleanLoop(stripped, stripped, iters + 1, extensions)

clean(ident) == CleanLoop(ident, ident, 0, DEFAULT_EXTENSIONS)

\* ---- inputs of the normalizer ----
MaxStack == 3
MaxDepth == 101

CleanBases == {"stone", "dirt"}

SuffixPool == <<"_top", "_side", ".png", "1", "_t", ".json">>

RECURSIVE Concat(_, _)
Concat(base, idxs) ==
    IF idxs = <<>> THEN base
    ELSE Concat(base \o SuffixPool[Head(idxs)], Tail(idxs))

\* piece * k
RECURSIVE Times(_, _)
Times(piece, k) ==
    IF k = 0 THEN ""
    ELSE LET half == Times(piece, k \div 2)
         IN  IF k % 2 = 1 THEN half \o half \o piece ELSE half \o half

Repeat(base, piece, k) == base \o Times(piece, k)

StackedInputs ==
    { Concat(b, idxs) : b \in CleanBases,
                        idxs \in UNION { [1..n -> 1..Len(SuffixPool)] : n \in 0..MaxStack } }

DeepInputs == { Repeat("a", "_top", k) : k \in 0..MaxDepth }

CleanInputs == StackedInputs \cup DeepInputs

CleanIdle ==
    /\ c_pc = "idle"
    /\ c_input = ""
    /\ c_extensions = <<>>
    /\ identifier = ""
    /\ previous = ""
    /\ iterations = 0
    /\ c_call = 0
    /\ c_first = ""
    /\ c_passes = 0

\* clean(identifier) entered: previous = identifier; iterations = 0
CleanInit ==
    /\ c_input \in CleanInputs
    /\ c_extensions \in {DEFAULT_EXTENSIONS, FLUID_EXTENSIONS}
    /\ identifier = c_input
    /\ previous = c_input
    /\ iterations = 0
    /\ c_pc = "loop"
    /\ c_call = 1
    /\ c_first = ""
    /\ c_passes = 0

\* One iteration of `while iterations < self.max_iterations`.
clean_pass ==
    /\ c_pc = "loop"
    /\ iterations < CleanerMaxIterations
    /\ LET stripped == CleanPass(identifier, c_extensions) IN
         /\ identifier' = stripped
         /\ c_passes' = c_passes + 1
         /\ IF stripped = previous
              THEN /\ c_pc' = "return"           \* break
                   /\ UNCHANGED <<previous, iterations>>
              ELSE /\ previous' = stripped
                   /\ iterations' = iterations + 1
                   /\ c_pc' = "loop"
    /\ UNCHANGED <<c_input, c_extensions, c_call, c_first>>
    /\ UNCHANGED <<resolveVars, batchVars, scanVars, entryVars, discoverVars>>

\* The while condition fails: the iteration cap is reached.
clean_cap ==
    /\ c_pc = "loop"
    /\ iterations >= CleanerMaxIterations
    /\ c_pc' = "return"
    /\ UNCHANGED <<c_input, c_extensions, identifier, previous, iterations, c_call,
                   c_first, c_passes>>
    /\ UNCHANGED <<resolveVars, batchVars, scanVars, entryVars, discoverVars>>

\* `return identifier` of the first call; the caller passes the value to clean() again.
clean_again ==
    /\ c_pc = "return"
    /\ c_call = 1
    /\ c_first' = identifier
    /\ c_call' = 2
    /\ previous' = identifier
    /\ iterations' = 0
    /\ c_passes' = 0
    /\ c_pc' = "loop"
    /\ UNCHANGED <<c_input, c_extensions, identifier>>
    /\ UNCHANGED <<resolveVars, batchVars, scanVars, entryVars, discoverVars>>

\* `return identifier` of the second call.
clean_return ==
    /\ c_pc = "return"
    /\ c_call = 2
    /\ c_pc' = "done"
    /\ UNCHANGED <<c_input, c_extensions, identifier, previous, iterations, c_call,
                   c_first, c_passes>>
    /\ UNCHANGED <<resolveVars, batchVars, scanVars, entryVars, discoverVars>>

NextClean == clean_pass \/ clean_cap \/ clean_again \/ clean_return

(***************************************************************************)
(* Tag reference resolver: the fixpoint loop of process_tag_jar            *)
(***************************************************************************)

\* `max_iterations = 10  # Prevent infinite loops`
max_iterations == 10

\* value of a local that has not been assigned yet
Unbound == "<unbound>"

\* `ch in s` for a one-character string ch
Contains(s, ch) == \E i \in 1..Len(s) : SubSeq(s, i, i) = ch

\* s.split(ch, 1) of a string that contains ch: the parts before and after the first ch
FirstIndex(s, ch) == CHOOSE i \in 1..Len(s) :
                        /\ SubSeq(s, i, i) = ch
                        /\ \A j \in 1..(i - 1) : SubSeq(s, j, j) # ch
SplitHead(s, ch) == SubSeq(s, 1, FirstIndex(s, ch) - 1)
SplitTail(s, ch) == SubSeq(s, FirstIndex(s, ch) + 1, Len(s))

\* The candidate entry names built from ref_ns and ref_path: the item tag first, then
\* the block tag, each in the category/material or the bare category layout.
ref_tag_files(ns, path) ==
    << IF Contains(path, "/")
         THEN "data/" \o ns \o "/tags/items/" \o SplitHead(path, "/") \o "/"
                      \o SplitTail(path, "/") \o ".json"
         ELSE "data/" \o ns \o "/tags/items/" \o path \o ".json",
       IF Contains(path, "/")
         THEN "data/" \o ns \o "/tags/blocks/" \o SplitHead(path, "/") \o "/"
                      \o SplitTail(path, "/") \o ".json"
         ELSE "data/" \o ns \o "/tags/blocks/" \o path \o ".json" >>

\* defaultdict(set): d[k]
DictGet(d, k) == IF k \in DOMAIN d THEN d[k] ELSE {}

\* d[k].update(v)
DictUpdate(d, k, v) == [x \in (DOMAIN d) \cup {k} |-> IF x = k THEN DictGet(d, k) \cup v ELSE d[x]]

\* d[k] = v
DictSet(d, k, v) == [x \in (DOMAIN d) \cup {k} |-> IF x = k THEN v ELSE d[x]]

\* insertion order of a dict after key k is touched
OrderTouch(order, d, k) == IF k \in DOMAIN d THEN order ELSE Append(order, k)

\* the assignment that would replace, rather than extend, the items of the tag
ReplaceItems(own, incoming) == incoming \ own

\* What the items of tag_id become when `incoming` is merged in:
\* new_items = incoming - tags_data[tag_id]; tags_data[tag_id].update(new_items)
MergeItems(own, incoming) == own \cup (incoming \ own)

\* The candidate files of one unknown reference, read one after the other
\* (`for ref_tag_file in ref_tag_files`), from candidate i on.  st is the record of the
\* locals and dicts the loop body reads and writes.
RECURSIVE ReadCandidates(_, _, _, _, _)
ReadCandidates(st, files, i, tid, ref) ==
    IF i > Len(files) THEN st
    ELSE IF files[i] \notin DOMAIN jar_files THEN ReadCandidates(st, files, i + 1, tid, ref)
    ELSE LET ref_items    == jar_files[files[i]].items
             ref_tag_refs == jar_files[files[i]].refs
             td1          == DictUpdate(st.td, ref, ref_items)
             tr1          == DictUpdate(st.tr, ref, ref_tag_refs)
             ord1         == OrderTouch(st.ord, st.tr, ref)
             new_items    == ref_items \ DictGet(td1, tid)
             td2          == IF new_items # {}
                               THEN DictSet(td1, tid, MergeItems(DictGet(td1, tid), ref_items))
                               ELSE td1
             st1          == [td |-> td2, tr |-> tr1, ord |-> ord1,
                              ch |-> (st.ch \/ new_items # {})]
         IN  ReadCandidates(st1, files, i + 1, tid, ref)

\* ---- inputs of the resolver ----
MaxEdges == 2
MaxChain == 12

TagA == "modA:dusts/iron"
TagB == "modB:dusts/iron"
TagC == "c:dusts/iron"
NoColonRef == "dusts/iron"
SmallTags == {TagA, TagB, TagC}
SmallOrder == <<TagA, TagB, TagC>>

ItemOf(t) == IF t = TagA THEN "modA:iron_dust"
             ELSE IF t = TagB THEN "modB:iron_dust" ELSE "c:iron_dust"

ChainNames == << "k:chain/a", "k:chain/b", "k:chain/c", "k:chain/d", "k:chain/e",
                 "k:chain/f", "k:chain/g", "k:chain/h", "k:chain/i", "k:chain/j",
                 "k:chain/k", "k:chain/l", "k:chain/m", "k:chain/n" >>

\* entry name of the item (or block) tag file that defines tag t
TagFile(t, kind) ==
    "data/" \o SplitHead(t, ":") \o "/tags/" \o kind \o "/" \o SplitTail(t, ":") \o ".json"

Orderings(S) ==
    { q \in [1..Cardinality(S) -> S] : \A i, j \in 1..Cardinality(S) : q[i] = q[j] => i = j }

Reverse(q) == [i \in 1..Len(q) |-> q[Len(q) + 1 - i]]

\* the id the scan of the archive gives the tag of an entry: item tags are ns:path,
\* block tags ns:blocks/path (lines 621-664)
ScanId(t, kind) ==
    IF kind = "blocks" THEN SplitHead(t, ":") \o ":blocks/" \o SplitTail(t, ":") ELSE t

\* The kind of tag file the archive holds for each small tag: an item tag, a block tag
\* or none.  A block tag is scanned under its blocks id, so a reference to ns:path
\* finds it only by the lookup in the archive.
SmallWhere ==
    { w \in [SmallTags -> {"items", "blocks", "absent"}] :
        /\ w[TagA] = "items"
        /\ w[TagB] \in {"items", "blocks"} }

\* the item sets of the tag files: a file holds the item of its own tag or nothing
SmallItems ==
    { [t \in SmallTags |-> IF t = TagA \/ t \in S THEN {ItemOf(t)} ELSE {}] :
        S \in { {TagB}, {TagB, TagC} } }

\* the references of the tag files: at most MaxEdges of them in all
SmallRefs ==
    { [t \in SmallTags |-> { e[2] : e \in { d \in E : d[1] = t } }] :
        E \in { D \in SUBSET (SmallTags \X (SmallTags \cup {NoColonRef})) :
                  Cardinality(D) <= MaxEdges } }

SmallInputOk(in) ==
    /\ \A t \in SmallTags : in.where[t] = "absent" => in.fitems[t] = {} /\ in.frefs[t] = {}
    /\ { in.order2[i] : i \in 1..Len(in.order2) } = { t \in SmallTags : in.where[t] # "absent" }

SmallInputs ==
    { in \in { [where |-> w, fitems |-> fi, frefs |-> fr, order2 |-> o2] :
                 w  \in SmallWhere, fi \in SmallItems, fr \in SmallRefs,
                 o2 \in UNION { Orderings(S) : S \in (SUBSET SmallTags) \ {{}} } } :
        SmallInputOk(in) }

\* the dicts (lines 600-675) and the archive a small input stands for
SmallStart(in) ==
    LET filed == { t \in SmallTags : in.where[t] # "absent" }
        id(t) == ScanId(t, in.where[t])
        tagOf(k) == CHOOSE t \in filed : id(t) = k
        keys == { id(t) : t \in filed }
        present(q) == SelectSeq(q, LAMBDA t : t \in filed)
    IN  [ td     |-> [k \in keys |-> in.fitems[tagOf(k)]],
          tr     |-> [k \in keys |-> in.frefs[tagOf(k)]],
          order1 |-> [i \in 1..Len(present(SmallOrder)) |-> id(present(SmallOrder)[i])],
          order2 |-> [i \in 1..Len(in.order2) |-> id(in.order2[i])],
          jar    |-> [f \in { TagFile(t, in.where[t]) : t \in filed } |->
                        LET t == CHOOSE u \in filed : TagFile(u, in.where[u]) = f
                        IN  [items |-> in.fitems[t], refs |-> in.frefs[t]]] ]

\* a chain of n scanned tags, each referring to the next; only the last holds an item
ChainStart(n, reversed) ==
    LET names == { ChainNames[i] : i \in 1..n }
        idx(t) == CHOOSE i \in 1..n : ChainNames[i] = t
        fwd == SubSeq(ChainNames, 1, n)
    IN  [ td     |-> [t \in names |-> IF idx(t) = n THEN {"k:item"} ELSE {}],
          tr     |-> [t \in names |-> IF idx(t) = n THEN {} ELSE {ChainNames[idx(t) + 1]}],
          order1 |-> fwd,
          order2 |-> IF reversed THEN Reverse(fwd) ELSE fwd,
          jar    |-> [f \in { TagFile(t, "items") : t \in names } |->
                        LET t == CHOOSE u \in names : TagFile(u, "items") = f
                        IN  [items |-> IF idx(t) = n THEN {"k:item"} ELSE {},
                             refs  |-> IF idx(t) = n THEN {} ELSE {ChainNames[idx(t) + 1]}]] ]

\* A tag file directly under tags/items: its entry name has five parts, so the scan
\* (line 620, `len(parts) >= 6`) passes it over, and only the lookup of a reference
\* finds it.
TopTag == "c:dusts"
TopFile == "data/c/tags/items/dusts.json"

\* an archive with the item tags TagA and TagB and the top-level tag c:dusts, which
\* refers to TagB; TagA refers to c:dusts
TopStart(top_items, a_refs) ==
    [ td     |-> (TagA :> {ItemOf(TagA)}) @@ (TagB :> {ItemOf(TagB)}),
      tr     |-> (TagA :> a_refs) @@ (TagB :> {}),
      order1 |-> <<TagA, TagB>>,
      order2 |-> <<TagB, TagA>>,
      jar    |-> (TagFile(TagA, "items") :> [items |-> {ItemOf(TagA)}, refs |-> a_refs])
                   @@ (TagFile(TagB, "items") :> [items |-> {ItemOf(TagB)}, refs |-> {}])
                   @@ (TopFile :> [items |-> top_items, refs |-> {TagB}]) ]

ResolveInputs ==
    { SmallStart(in) : in \in SmallInputs }
      \cup { ChainStart(n, rv) : n \in 2..MaxChain, rv \in BOOLEAN }
      \cup { TopStart(ti, ar) : ti \in { {}, {ItemOf(TagA)}, {ItemOf(TagC)} },
                                ar \in { {TopTag}, {TopTag, TagB} } }

ResolveIdle ==
    /\ r_pc = "idle"
    /\ jar_files = <<>>
    /\ tags_data = <<>>
    /\ tag_references = <<>>
    /\ tr_order = <<>>
    /\ changed = FALSE
    /\ iteration = 0
    /\ r_snapshot = <<>>
    /\ r_idx = 0
    /\ tag_id = ""
    /\ r_todo = {}
    /\ ref_ns = Unbound
    /\ ref_path = Unbound
    /\ r_run = 0
    /\ r_input = <<>>
    /\ r_result1 = <<>>
    /\ peer_active = FALSE

\* The state at line 907: the tag files of the archive are read, the loop starts.
ResolveInit ==
    /\ r_input \in ResolveInputs
    /\ r_run = 1
    /\ r_result1 = <<>>
    /\ jar_files = r_input.jar
    /\ tags_data = r_input.td
    /\ tag_references = r_input.tr
    /\ tr_order = r_input.order1
    /\ changed = TRUE
    /\ iteration = 0
    /\ r_pc = "while"
    /\ r_snapshot = <<>>
    /\ r_idx = 0
    /\ tag_id = ""
    /\ r_todo = {}
    /\ ref_ns = Unbound
    /\ ref_path = Unbound
    /\ peer_active \in BOOLEAN

\* the loop is never entered
WhileCondNever(ch, it) == FALSE

\* the loop condition without the cap
WhileCondNoCap(ch, it) == ch

\* `while changed and iteration < max_iterations`
WhileCond(ch, it) == ch /\ it < max_iterations

\* lines 911-918: the loop condition holds; a pass starts over a snapshot of the
\* reference dict (`list(tag_references.items())`)
resolve_pass ==
    /\ r_pc = "while"
    /\ WhileCond(changed, iteration)
    /\ changed' = FALSE
    /\ iteration' = iteration + 1
    /\ r_snapshot' = tr_order
    /\ r_idx' = 1
    /\ r_pc' = "for_tag"
    /\ UNCHANGED <<jar_files, tags_data, tag_references, tr_order, tag_id, r_todo,
                   ref_ns, ref_path, r_run, r_input, r_result1>>
    /\ UNCHANGED <<cleanVars, batchVars, scanVars, entryVars, discoverVars, peer_active>>

\* line 911: the loop condition fails; the resolver is done
resolve_exit ==
    /\ r_pc = "while"
    /\ ~WhileCond(changed, iteration)
    /\ r_pc' = "resolved"
    /\ UNCHANGED <<jar_files, tags_data, tag_references, tr_order, changed, iteration,
                   r_snapshot, r_idx, tag_id, r_todo, ref_ns, ref_path, r_run, r_input,
                   r_result1>>
    /\ UNCHANGED <<cleanVars, batchVars, scanVars, entryVars, discoverVars, peer_active>>

\* line 918: the next (tag_id, refs) pair of the snapshot; refs is the live set
resolve_tag ==
    /\ r_pc = "for_tag"
    /\ r_idx <= Len(r_snapshot)
    /\ tag_id' = r_snapshot[r_idx]
    /\ r_todo' = tag_references[r_snapshot[r_idx]]
    /\ r_pc' = "for_ref"
    /\ UNCHANGED <<jar_files, tags_data, tag_references, tr_order, changed, iteration,
                   r_snapshot, r_idx, ref_ns, ref_path, r_run, r_input, r_result1>>
    /\ UNCHANGED <<cleanVars, batchVars, scanVars, entryVars, discoverVars, peer_active>>

\* line 918: the snapshot is exhausted, back to the loop condition
resolve_pass_end ==
    /\ r_pc = "for_tag"
    /\ r_idx > Len(r_snapshot)
    /\ r_pc' = "while"
    /\ UNCHANGED <<jar_files, tags_data, tag_references, tr_order, changed, iteration,
                   r_snapshot, r_idx, tag_id, r_todo, ref_ns, ref_path, r_run, r_input,
                   r_result1>>
    /\ UNCHANGED <<cleanVars, batchVars, scanVars, entryVars, discoverVars, peer_active>>

\* lines 919-966: one reference of the tag, in whatever order the set yields them.
\* A known reference is merged from tags_data.  An unknown one is looked up in the
\* archive under the names built from ref_ns and ref_path, which line 931 assigns only
\* when the reference holds a colon: otherwise the values of an earlier lookup are
\* used, and if there was none reading ref_path raises (UnboundLocalError), which
\* leaves the loop.
resolve_ref ==
    /\ r_pc = "for_ref"
    /\ r_todo # {}
    /\ \E ref \in r_todo :
         /\ r_todo' = r_todo \ {ref}
         /\ IF ref \in DOMAIN tags_data
              THEN LET new_items == tags_data[ref] \ tags_data[tag_id] IN
                     /\ tags_data' = IF new_items # {}
                                       THEN DictSet(tags_data, tag_id,
                                                    MergeItems(tags_data[tag_id], tags_data[ref]))
                                       ELSE tags_data
                     /\ changed' = (changed \/ new_items # {})
                     /\ UNCHANGED <<tag_references, tr_order, ref_ns, ref_path, r_pc>>
              ELSE LET ns   == IF Contains(ref, ":") THEN SplitHead(ref, ":") ELSE ref_ns
                       path == IF Contains(ref, ":") THEN SplitTail(ref, ":") ELSE ref_path
                   IN  /\ ref_ns' = ns
                       /\ ref_path' = path
                       /\ IF path = Unbound
                            THEN /\ r_pc' = "raised"
                                 /\ UNCHANGED <<tags_data, tag_references, tr_order, changed>>
                            ELSE LET st == ReadCandidates([td |-> tags_data, tr |-> tag_references,
                                                           ord |-> tr_order, ch |-> changed],
                                                          ref_tag_files(ns, path), 1, tag_id, ref)
                                 IN  /\ tags_data' = st.td
                                     /\ tag_references' = st.tr
                                     /\ tr_order' = st.ord
                                     /\ changed' = st.ch
                                     /\ UNCHANGED r_pc
    /\ UNCHANGED <<jar_files, iteration, r_snapshot, r_idx, tag_id, r_run, r_input, r_result1>>
    /\ UNCHANGED <<cleanVars, batchVars, scanVars, entryVars, discoverVars, peer_active>>

\* line 919: the references of the tag are exhausted, on to the next tag
resolve_tag_end ==
    /\ r_pc = "for_ref"
    /\ r_todo = {}
    /\ r_idx' = r_idx + 1
    /\ r_pc' = "for_tag"
    /\ UNCHANGED <<jar_files, tags_data, tag_references, tr_order, changed, iteration,
                   r_snapshot, tag_id, r_todo, ref_ns, ref_path, r_run, r_input, r_result1>>
    /\ UNCHANGED <<cleanVars, batchVars, scanVars, entryVars, discoverVars, peer_active>>

\* The same archive resolved again with its tag files met in another order: the
\* outcome of the first run is kept, the dicts are built anew in the second order.
resolve_rerun ==
    /\ r_pc \in {"resolved", "raised"}
    /\ r_run = 1
    /\ r_result1' = [pc |-> r_pc, td |-> tags_data, passes |-> iteration]
    /\ r_run' = 2
    /\ tags_data' = r_input.td
    /\ tag_references' = r_input.tr
    /\ tr_order' = r_input.order2
    /\ changed' = TRUE
    /\ iteration' = 0
    /\ r_pc' = "while"
    /\ r_snapshot' = <<>>
    /\ r_idx' = 0
    /\ tag_id' = ""
    /\ r_todo' = {}
    /\ ref_ns' = Unbound
    /\ ref_path' = Unbound
    /\ UNCHANGED <<jar_files, r_input>>
    /\ peer_active' \in BOOLEAN
    /\ UNCHANGED <<cleanVars, batchVars, scanVars, entryVars, discoverVars>>

\* scanner_common.py 242-247: process_tag_jar is the process function handed to
\* execute_concurrent, so the call for another archive runs in another worker of
\* the same pool; here that call returns
peer_done ==
    /\ r_pc # "idle"
    /\ peer_active
    /\ peer_active' = FALSE
    /\ UNCHANGED <<r_pc, jar_files, tags_data, tag_references, tr_order, changed, iteration,
                   r_snapshot, r_idx, tag_id, r_todo, ref_ns, ref_path, r_run, r_input,
                   r_result1>>
    /\ UNCHANGED <<cleanVars, batchVars, scanVars, entryVars, discoverVars>>

NextResolve ==
    \/ resolve_pass
    \/ resolve_exit
    \/ resolve_tag
    \/ resolve_pass_end
    \/ resolve_ref
    \/ resolve_tag_end
    \/ resolve_rerun
    \/ peer_done

(***************************************************************************)
(* Batched writers                                                         *)
(***************************************************************************)

\* Mods scanned per batch.  The program's value is 64 (BATCH_SIZE); the model scales it
\* down together with the number of mods.
BATCH_SIZE == 2
MaxMods == 3

\* name.replace(':', '_').replace('/', '_').replace('#', 'tag_')
RECURSIVE sanitize_filename(_)
sanitize_filename(name) ==
    IF name = "" THEN ""
    ELSE LET c == SubSeq(name, 1, 1)
             r == IF c = ":" \/ c = "/" THEN "_" ELSE IF c = "#" THEN "tag_" ELSE c
         IN  r \o sanitize_filename(SubSeq(name, 2, Len(name)))

\* item.lstrip('#')
RECURSIVE LStripHash(_)
LStripHash(s) ==
    IF s # "" /\ SubSeq(s, 1, 1) = "#" THEN LStripHash(SubSeq(s, 2, Len(s))) ELSE s

\* _extract_namespace_from_item: the part before the first colon, or None
extract_namespace_from_item(item) ==
    IF Contains(item, ":") THEN SplitHead(item, ":") ELSE "<None>"

\* _is_namespace_installed with an empty namespace_to_mod_map: `namespace in mods`
is_namespace_installed(namespace, mods) ==
    \E i \in 1..Len(mods) : mods[i].id = namespace

InstalledDir(installed) == IF installed THEN "installed" ELSE "not_installed"

\* the three files of a tag entry
full_tag_name(e) == e.namespace \o ":" \o e.tag_name
tag_file(e) == "tags/" \o e.tag_type \o "/" \o sanitize_filename(full_tag_name(e)) \o ".txt"
tag_items_file(e, mods) ==
    "tag_to_items/" \o InstalledDir(is_namespace_installed(e.namespace, mods)) \o "/"
        \o sanitize_filename(full_tag_name(e)) \o ".txt"
tag_entry(e) == e.tag_type \o ": " \o full_tag_name(e)

\* item_key = (safe_item_name, item_is_installed) and the file it stands for
item_key(item, mods) ==
    LET clean_item == LStripHash(item)
        ns == extract_namespace_from_item(clean_item)
    IN  << sanitize_filename(clean_item),
           IF ns = "<None>" THEN FALSE ELSE is_namespace_installed(ns, mods) >>
item_file_path(key) == "item_to_tags/" \o InstalledDir(key[2]) \o "/" \o key[1] \o ".txt"

\* the files of a recipe type and of a mod
type_file(safe_type_name) == "recipes/by_type/" \o safe_type_name \o ".txt"
inputs_file(safe_type_name) == "recipes/item_inputs/" \o safe_type_name \o ".txt"
outputs_file(safe_type_name) == "recipes/item_outputs/" \o safe_type_name \o ".txt"
mod_file(mod_id) == "recipes/by_mod/" \o mod_id \o ".txt"

\* sorted(S) for the identifiers of the model
SortedIds == << "#c:gems", "minecraft:iron", "modv:r", "modw:r", "modx:r", "modx:ruby", "mody:r", "modz:r" >>
Sorted(S) == SelectSeq(SortedIds, LAMBDA x : x \in S)

RangeOf(f) == { f[x] : x \in DOMAIN f }
SeqToSet(q) == { q[i] : i \in 1..Len(q) }

\* content of a file on disk (no file: nothing)
ReadFile(d, path) == IF path \in DOMAIN d THEN d[path] ELSE <<>>

\* open(path, 'w') truncates the file, open(path, 'a') keeps what it holds
open_w(content) == <<>>

\* an append handle that would truncate
open_truncating(content) == <<>>

open_a(content) == content

\* a file object: open(path, mode) returns a new one, whatever else is open
NewHandle(handles) ==
    CHOOSE n \in 1..(Cardinality(DOMAIN handles) + 1) :
        n \notin DOMAIN handles /\ \A m \in 1..(n - 1) : m \in DOMAIN handles
OpenFile(handles, path, mode) ==
    [h \in (DOMAIN handles) \cup {NewHandle(handles)} |->
        IF h \in DOMAIN handles THEN handles[h] ELSE [path |-> path, mode |-> mode, buf |-> <<>>]]

\* f.write(line), line after line, on an open handle
HandleWrite(handles, h, lines) ==
    [handles EXCEPT ![h] = [path |-> @.path, mode |-> @.mode, buf |-> @.buf \o lines]]

\* f.flush() of the handles hs, in the order they were cached: the buffers reach the disk
RECURSIVE FlushAll(_, _, _)
FlushAll(d, handles, hs) ==
    IF hs = {} THEN d
    ELSE LET h == CHOOSE x \in hs : \A y \in hs : x <= y
             path == handles[h].path
         IN  FlushAll(DictSet(d, path, ReadFile(d, path) \o handles[h].buf), handles, hs \ {h})

\* kept open across the batch boundary
LeaveOpen(handles, hs) == handles

\* f.close() of the handles hs
CloseAll(handles, hs) == [h \in (DOMAIN handles) \ hs |-> handles[h]]

\* ', '.join(q)
RECURSIVE Join(_)
Join(q) == IF q = <<>> THEN "" ELSE IF Len(q) = 1 THEN q[1] ELSE q[1] \o ", " \o Join(Tail(q))

\* logging.basicConfig(level=logging.INFO) of core/scanner/__init__.py
LOG_LEVEL == "INFO"

\* the numeric value of a logging level
LevelNo(level) ==
    CASE level = "DEBUG" -> 10 [] level = "INFO" -> 20 [] level = "WARNING" -> 30
      [] level = "ERROR" -> 40

\* logger.<level>(...): the record reaches the handlers if its level is enabled
Emit(level, about) ==
    IF LevelNo(level) >= LevelNo(LOG_LEVEL) THEN << [level |-> level, about |-> about] >>
    ELSE <<>>

\* open_jar_safe: the entries the yielded object lists, and the records emitted.  An
\* archive that is no ZIP container yields a DummyZipFile, whose namelist() is empty.
open_jar_safe(mod) ==
    IF mod.readable THEN [namelist |-> mod.files, emitted |-> <<>>]
    ELSE [namelist |-> <<>>, emitted |-> Emit("DEBUG", mod.id)]

\* the name load_json_from_jar puts in its record: the entry name of a tag file, and for
\* a recipe file the id that stands for its entry name
file_path(kind, e) ==
    IF kind = "tags"
      THEN "data/" \o e.namespace \o "/tags/" \o e.tag_type \o "/" \o e.tag_name \o ".json"
      ELSE e.id

\* ---- inputs of the writers ----
ModIds == << "modx", "mody", "modz", "modw", "modv" >>

\* a tag file of an archive, by the parts of its entry name and the values in its JSON
TagEntries ==
    { [namespace |-> "c", tag_type |-> "items", tag_name |-> n, values |-> v, json |-> "ok"] :
        n \in {"ores", "gems"},
        v \in { <<>>, <<"minecraft:iron", "modx:ruby">>, <<"minecraft:iron", "#c:gems">> } }

\* a recipe file of the archive of mod i, as parse_recipe reads it
RecipeEntries(i) ==
    { [id |-> ModIds[i] \o ":r", type |-> t, inputs |-> io[1], outputs |-> io[2],
       json |-> "ok"] :
        t  \in {"minecraft:smelting", "minecraft:crafting"},
        io \in { <<{"minecraft:iron"}, {"modx:ruby"}>>, <<{}, {}>> } }
      \cup { [id |-> ModIds[i] \o ":r", type |-> "", inputs |-> {}, outputs |-> {"modx:ruby"},
               json |-> "ok"] }

\* entries whose content is not what the writers expect: text that is no JSON
\* ("syntax_error"), or JSON of another shape: a number where a tag object is expected,
\* a list where a recipe object is expected ("other_shape")
MalformedKinds == {"syntax_error", "other_shape"}

MalformedTagEntries ==
    { [namespace |-> "c", tag_type |-> "items", tag_name |-> "dusts", values |-> <<>>,
       json |-> k] : k \in MalformedKinds }

MalformedRecipeEntries(i) ==
    { [id |-> ModIds[i] \o ":m", type |-> "", inputs |-> {}, outputs |-> {}, json |-> k] :
        k \in MalformedKinds }

\* the entry that follows a malformed one in its archive
FollowingEntry(kind, i) ==
    IF kind = "tags"
      THEN [namespace |-> "c", tag_type |-> "items", tag_name |-> "gems",
            values |-> <<"minecraft:iron">>, json |-> "ok"]
      ELSE [id |-> ModIds[i] \o ":r", type |-> "minecraft:smelting",
            inputs |-> {"minecraft:iron"}, outputs |-> {"modx:ruby"}, json |-> "ok"]

\* load_json_from_jar: None for text that is no JSON, else the parsed value
load_json_from_jar(e) == IF e.json = "syntax_error" THEN "<None>" ELSE e.json

\* an archive holds one matching entry or none, or is not a ZIP container at all;
\* discover_mods_and_namespaces lists every archive as a mod, readable or not.  The
\* first archive may hold a malformed entry followed by a well-formed one.
ModChoices(kind, i) ==
    { [id |-> ModIds[i], readable |-> r, files |-> <<>>] : r \in BOOLEAN }
      \cup { [id |-> ModIds[i], readable |-> TRUE, files |-> <<e>>] :
               e \in IF kind = "tags" THEN TagEntries ELSE RecipeEntries(i) }
      \cup (IF i # 1 THEN {}
            ELSE { [id |-> ModIds[i], readable |-> TRUE,
                    files |-> <<e, FollowingEntry(kind, i)>>] :
                     e \in IF kind = "tags" THEN MalformedTagEntries
                           ELSE MalformedRecipeEntries(i) })

ModsLists(kind) ==
    UNION { { q \in [1..n -> UNION { ModChoices(kind, i) : i \in 1..n }] :
                \A i \in 1..n : q[i] \in ModChoices(kind, i) } : n \in 1..MaxMods }

BatchIdle ==
    /\ b_pc = "idle"
    /\ b_kind = ""
    /\ mods_list = <<>>
    /\ batch_start = 0
    /\ b_mod = 0
    /\ b_entry = 0
    /\ b_items = {}
    /\ open_handles = <<>>
    /\ file_cache = <<>>
    /\ disk = <<>>
    /\ item_to_tags_written = <<>>
    /\ recipe_counts_by_type = <<>>
    /\ touched = {}
    /\ b_log = <<>>
    /\ rd_args = <<>>
    /\ rd_yield = <<>>

\* the state at the head of the batch loop, with empty output directories
BatchInit ==
    /\ b_kind \in {"tags", "recipes"}
    /\ mods_list \in ModsLists(b_kind)
    /\ b_pc = "batch_head"
    /\ batch_start = 0
    /\ b_mod = 0
    /\ b_entry = 0
    /\ b_items = {}
    /\ open_handles = <<>>
    /\ file_cache = <<>>
    /\ disk = <<>>
    /\ item_to_tags_written = <<>>
    /\ recipe_counts_by_type = <<>>
    /\ touched = {}
    /\ b_log = <<>>
    /\ rd_args = <<>>
    /\ rd_yield = <<>>

\* ---- the writers ----
total_mods == Len(mods_list)
batch_end == IF batch_start + BATCH_SIZE < total_mods THEN batch_start + BATCH_SIZE ELSE total_mods
CurFiles == open_jar_safe(mods_list[b_mod]).namelist
CurEntry == CurFiles[b_entry]

\* mod_recipes: the recipes of the archive that were parsed
mod_recipes == SelectSeq(CurFiles, LAMBDA e : e.json = "ok")

\* the file objects, the dicts, the disk and the touched paths, as one record
WriterState == [h |-> open_handles, c |-> file_cache, d |-> disk, t |-> touched]

\* `if key not in cache: cache[key] = open(path, 'a')`
CacheOpen(st, name, key, path) ==
    IF <<name, key>> \in DOMAIN st.c THEN st
    ELSE [ h |-> OpenFile(st.h, path, "a"),
           c |-> DictSet(st.c, <<name, key>>, NewHandle(st.h)),
           d |-> DictSet(st.d, path, open_a(ReadFile(st.d, path))),
           t |-> st.t \cup {path} ]

\* `cache[key].write(...)`
CacheWrite(st, name, key, lines) ==
    [st EXCEPT !.h = HandleWrite(st.h, st.c[<<name, key>>], lines)]

\* `with open(path, 'w') as f:` entered
OpenTransient(st, path) ==
    [ h |-> OpenFile(st.h, path, "w"),
      c |-> st.c,
      d |-> DictSet(st.d, path, open_w(ReadFile(st.d, path))),
      t |-> st.t \cup {path} ]

\* the file object of the running `with open(path, 'w')` block
TransientHandle == CHOOSE h \in DOMAIN open_handles : open_handles[h].mode = "w"

\* the `with` block writes its lines and is left: the file is flushed and closed
CloseTransient(st, lines) ==
    LET h == CHOOSE x \in DOMAIN st.h : st.h[x].mode = "w"
        path == st.h[h].path
    IN  [ h |-> [x \in (DOMAIN st.h) \ {h} |-> st.h[x]],
          c |-> st.c,
          d |-> DictSet(st.d, path, ReadFile(st.d, path) \o st.h[h].buf \o lines),
          t |-> st.t ]

SetWriter(st) ==
    /\ open_handles' = st.h
    /\ file_cache' = st.c
    /\ disk' = st.d
    /\ touched' = st.t

\* the batch-boundary code: flush and close every cached handle, clear the dicts
BoundaryState(st) ==
    [ h |-> CloseAll(st.h, RangeOf(st.c)),
      c |-> <<>>,
      d |-> FlushAll(st.d, st.h, RangeOf(st.c)),
      t |-> st.t ]

\* `for batch_start in range(0, total_mods, BATCH_SIZE)`: the next batch begins
batch_begin ==
    /\ b_pc = "batch_head"
    /\ batch_start < total_mods
    /\ b_mod' = batch_start + 1
    /\ touched' = {}
    /\ b_pc' = "mod_head"
    /\ UNCHANGED <<b_kind, mods_list, batch_start, b_entry, b_items, open_handles, file_cache,
                   disk, item_to_tags_written, recipe_counts_by_type>>
    /\ UNCHANGED <<cleanVars, resolveVars, scanVars, entryVars, discoverVars, b_log, rd_args, rd_yield>>

\* the range of batches is exhausted
batches_done ==
    /\ b_pc = "batch_head"
    /\ batch_start >= total_mods
    /\ b_pc' = "final"
    /\ UNCHANGED <<b_kind, mods_list, batch_start, b_mod, b_entry, b_items, open_handles,
                   file_cache, disk, item_to_tags_written, recipe_counts_by_type, touched>>
    /\ UNCHANGED <<cleanVars, resolveVars, scanVars, entryVars, discoverVars, b_log, rd_args, rd_yield>>

\* the final flush and close after the loop
final_close ==
    /\ b_pc = "final"
    /\ SetWriter(BoundaryState(WriterState))
    /\ b_pc' = "done"
    /\ UNCHANGED <<b_kind, mods_list, batch_start, b_mod, b_entry, b_items,
                   item_to_tags_written, recipe_counts_by_type>>
    /\ UNCHANGED <<cleanVars, resolveVars, scanVars, entryVars, discoverVars, b_log, rd_args, rd_yield>>

\* `for mod_id, jar_path in batch_mods`: the archive is opened and listed
mod_begin ==
    /\ b_pc = "mod_head"
    /\ b_mod <= batch_end
    /\ b_entry' = 1
    /\ b_log' = b_log \o open_jar_safe(mods_list[b_mod]).emitted
    /\ b_pc' = "entry_head"
    /\ UNCHANGED <<b_kind, mods_list, batch_start, b_mod, b_items, open_handles, file_cache,
                   disk, item_to_tags_written, recipe_counts_by_type, touched>>
    /\ UNCHANGED <<cleanVars, resolveVars, scanVars, entryVars, discoverVars, rd_args, rd_yield>>

\* the mods of the batch are exhausted: flush, close and clear, then the next batch
batch_boundary ==
    /\ b_pc = "mod_head"
    /\ b_mod > batch_end
    /\ SetWriter(BoundaryState(WriterState))
    /\ batch_start' = batch_start + BATCH_SIZE
    /\ b_pc' = "batch_head"
    /\ UNCHANGED <<b_kind, mods_list, b_mod, b_entry, b_items, item_to_tags_written,
                   recipe_counts_by_type>>
    /\ UNCHANGED <<cleanVars, resolveVars, scanVars, entryVars, discoverVars, b_log, rd_args, rd_yield>>

\* the entries of the archive are exhausted and no by_mod file is due
mod_end ==
    /\ b_pc = "entry_head"
    /\ b_entry > Len(CurFiles)
    /\ b_kind = "tags" \/ mod_recipes = <<>>
    /\ b_mod' = b_mod + 1
    /\ b_pc' = "mod_head"
    /\ UNCHANGED <<b_kind, mods_list, batch_start, b_entry, b_items, open_handles, file_cache,
                   disk, item_to_tags_written, recipe_counts_by_type, touched>>
    /\ UNCHANGED <<cleanVars, resolveVars, scanVars, entryVars, discoverVars, b_log, rd_args, rd_yield>>

\* tags, lines 165-169: the tag file is opened for writing
tag_file_open ==
    /\ b_pc = "entry_head"
    /\ b_kind = "tags"
    /\ b_entry <= Len(CurFiles)
    /\ load_json_from_jar(CurEntry) = "ok"
    /\ SetWriter(OpenTransient(WriterState, tag_file(CurEntry)))
    /\ b_pc' = "tag_file"
    /\ UNCHANGED <<b_kind, mods_list, batch_start, b_mod, b_entry, b_items,
                   item_to_tags_written, recipe_counts_by_type>>
    /\ UNCHANGED <<cleanVars, resolveVars, scanVars, entryVars, discoverVars, b_log, rd_args, rd_yield>>

\* tags, lines 169-175: the values are written, the `with` block is left
tag_file_close ==
    /\ b_pc = "tag_file"
    /\ SetWriter(CloseTransient(WriterState, CurEntry.values))
    /\ b_pc' = "tag_items_file"
    /\ UNCHANGED <<b_kind, mods_list, batch_start, b_mod, b_entry, b_items,
                   item_to_tags_written, recipe_counts_by_type>>
    /\ UNCHANGED <<cleanVars, resolveVars, scanVars, entryVars, discoverVars, b_log, rd_args, rd_yield>>

\* tags, lines 177-183: the tag_to_items file is opened for writing
tag_items_file_open ==
    /\ b_pc = "tag_items_file"
    /\ SetWriter(OpenTransient(WriterState, tag_items_file(CurEntry, mods_list)))
    /\ b_pc' = "tag_items_file_w"
    /\ UNCHANGED <<b_kind, mods_list, batch_start, b_mod, b_entry, b_items,
                   item_to_tags_written, recipe_counts_by_type>>
    /\ UNCHANGED <<cleanVars, resolveVars, scanVars, entryVars, discoverVars, b_log, rd_args, rd_yield>>

\* tags, lines 183-187: "#TAG:" line and the sorted items, the `with` block is left
tag_items_file_close ==
    /\ b_pc = "tag_items_file_w"
    /\ SetWriter(CloseTransient(WriterState,
                     <<"#TAG:" \o full_tag_name(CurEntry)>> \o Sorted(SeqToSet(CurEntry.values))))
    /\ b_items' = SeqToSet(CurEntry.values)
    /\ b_pc' = "items"
    /\ UNCHANGED <<b_kind, mods_list, batch_start, b_mod, b_entry, item_to_tags_written,
                   recipe_counts_by_type>>
    /\ UNCHANGED <<cleanVars, resolveVars, scanVars, entryVars, discoverVars, b_log, rd_args, rd_yield>>

\* tags, lines 191-213: one item of the tag; its entry is written through the cached
\* handle of the item unless it was written before
item_to_tags_write ==
    /\ b_pc = "items"
    /\ \E item \in b_items :
         LET key == item_key(item, mods_list)
             isNew == tag_entry(CurEntry) \notin DictGet(item_to_tags_written, key)
             st1 == CacheOpen(WriterState, "item_to_tags", key, item_file_path(key))
             st2 == CacheWrite(st1, "item_to_tags", key, <<tag_entry(CurEntry)>>)
         IN  /\ b_items' = b_items \ {item}
             /\ SetWriter(IF isNew THEN st2 ELSE WriterState)
             /\ item_to_tags_written' =
                  DictUpdate(item_to_tags_written, key,
                             IF isNew THEN {tag_entry(CurEntry)} ELSE {})
    /\ UNCHANGED <<b_pc, b_kind, mods_list, batch_start, b_mod, b_entry, recipe_counts_by_type>>
    /\ UNCHANGED <<cleanVars, resolveVars, scanVars, entryVars, discoverVars, b_log, rd_args, rd_yield>>

\* tags: the items of the tag are exhausted, on to the next entry
tag_done ==
    /\ b_pc = "items"
    /\ b_items = {}
    /\ b_entry' = b_entry + 1
    /\ b_pc' = "entry_head"
    /\ UNCHANGED <<b_kind, mods_list, batch_start, b_mod, b_items, open_handles, file_cache,
                   disk, item_to_tags_written, recipe_counts_by_type, touched>>
    /\ UNCHANGED <<cleanVars, resolveVars, scanVars, entryVars, discoverVars, b_log, rd_args, rd_yield>>

\* recipes, lines 182-199: a recipe with a type is counted and written to the by_type
\* file through its cached handle
recipe_by_type ==
    /\ b_pc = "entry_head"
    /\ b_kind = "recipes"
    /\ b_entry <= Len(CurFiles)
    /\ load_json_from_jar(CurEntry) = "ok"
    /\ CurEntry.type # ""
    /\ LET safe_type_name == sanitize_filename(CurEntry.type)
           lines == <<CurEntry.id>>
                      \o (IF CurEntry.inputs # {}
                            THEN <<"  Inputs: " \o Join(Sorted(CurEntry.inputs))>> ELSE <<>>)
                      \o (IF CurEntry.outputs # {}
                            THEN <<"  Outputs: " \o Join(Sorted(CurEntry.outputs))>> ELSE <<>>)
                      \o <<"">>
           st1 == CacheOpen(WriterState, "by_type", safe_type_name, type_file(safe_type_name))
       IN  SetWriter(CacheWrite(st1, "by_type", safe_type_name, lines))
    /\ recipe_counts_by_type' =
         [t \in (DOMAIN recipe_counts_by_type) \cup {CurEntry.type} |->
            (IF t \in DOMAIN recipe_counts_by_type THEN recipe_counts_by_type[t] ELSE 0)
              + (IF t = CurEntry.type THEN 1 ELSE 0)]
    /\ b_pc' = "item_inputs"
    /\ UNCHANGED <<b_kind, mods_list, batch_start, b_mod, b_entry, b_items,
                   item_to_tags_written>>
    /\ UNCHANGED <<cleanVars, resolveVars, scanVars, entryVars, discoverVars, b_log, rd_args, rd_yield>>

\* recipes, line 182: a recipe without a type is only kept for the by_mod file
recipe_untyped ==
    /\ b_pc = "entry_head"
    /\ b_kind = "recipes"
    /\ b_entry <= Len(CurFiles)
    /\ load_json_from_jar(CurEntry) = "ok"
    /\ CurEntry.type = ""
    /\ b_entry' = b_entry + 1
    /\ UNCHANGED <<b_pc, b_kind, mods_list, batch_start, b_mod, b_items, open_handles,
                   file_cache, disk, item_to_tags_written, recipe_counts_by_type, touched>>
    /\ UNCHANGED <<cleanVars, resolveVars, scanVars, entryVars, discoverVars, b_log, rd_args, rd_yield>>

\* recipes, lines 202-204: the item_inputs handle of the type is opened if not cached
recipe_inputs_open ==
    /\ b_pc = "item_inputs"
    /\ LET safe_type_name == sanitize_filename(CurEntry.type)
       IN  SetWriter(CacheOpen(WriterState, "item_inputs", safe_type_name,
                               inputs_file(safe_type_name)))
    /\ b_pc' = "item_outputs"
    /\ UNCHANGED <<b_kind, mods_list, batch_start, b_mod, b_entry, b_items,
                   item_to_tags_written, recipe_counts_by_type>>
    /\ UNCHANGED <<cleanVars, resolveVars, scanVars, entryVars, discoverVars, b_log, rd_args, rd_yield>>

\* recipes, lines 206-216: the item_outputs handle is opened if not cached, then the
\* sorted inputs and outputs are written through the two handles
recipe_items_write ==
    /\ b_pc = "item_outputs"
    /\ LET safe_type_name == sanitize_filename(CurEntry.type)
           st1 == CacheOpen(WriterState, "item_outputs", safe_type_name,
                            outputs_file(safe_type_name))
           st2 == CacheWrite(st1, "item_inputs", safe_type_name, Sorted(CurEntry.inputs))
       IN  SetWriter(CacheWrite(st2, "item_outputs", safe_type_name, Sorted(CurEntry.outputs)))
    /\ b_entry' = b_entry + 1
    /\ b_pc' = "entry_head"
    /\ UNCHANGED <<b_kind, mods_list, batch_start, b_mod, b_items, item_to_tags_written,
                   recipe_counts_by_type>>
    /\ UNCHANGED <<cleanVars, resolveVars, scanVars, entryVars, discoverVars, b_log, rd_args, rd_yield>>

\* recipes, lines 219-221: the mod had recipes, its by_mod file is opened for writing
mod_file_open ==
    /\ b_pc = "entry_head"
    /\ b_kind = "recipes"
    /\ b_entry > Len(CurFiles)
    /\ mod_recipes # <<>>
    /\ SetWriter(OpenTransient(WriterState, mod_file(mods_list[b_mod].id)))
    /\ b_pc' = "mod_file"
    /\ UNCHANGED <<b_kind, mods_list, batch_start, b_mod, b_entry, b_items,
                   item_to_tags_written, recipe_counts_by_type>>
    /\ UNCHANGED <<cleanVars, resolveVars, scanVars, entryVars, discoverVars, b_log, rd_args, rd_yield>>

\* recipes, lines 221-223: the sorted recipe ids are written, the `with` block is left
mod_file_close ==
    /\ b_pc = "mod_file"
    /\ SetWriter(CloseTransient(WriterState,
                                Sorted({ mod_recipes[i].id : i \in 1..Len(mod_recipes) })))
    /\ b_mod' = b_mod + 1
    /\ b_pc' = "mod_head"
    /\ UNCHANGED <<b_kind, mods_list, batch_start, b_entry, b_items, item_to_tags_written,
                   recipe_counts_by_type>>
    /\ UNCHANGED <<cleanVars, resolveVars, scanVars, entryVars, discoverVars, b_log, rd_args, rd_yield>>

\* tags line 155, recipes line 175: the content of the entry is no JSON,
\* load_json_from_jar returns None and the entry is passed over
entry_skip ==
    /\ b_pc = "entry_head"
    /\ b_entry <= Len(CurFiles)
    /\ load_json_from_jar(CurEntry) = "<None>"
    /\ b_log' = b_log \o Emit("DEBUG", file_path(b_kind, CurEntry))
    /\ b_entry' = b_entry + 1
    /\ UNCHANGED <<b_pc, b_kind, mods_list, batch_start, b_mod, b_items, open_handles,
                   file_cache, disk, item_to_tags_written, recipe_counts_by_type, touched>>
    /\ UNCHANGED <<cleanVars, resolveVars, scanVars, entryVars, discoverVars, rd_args, rd_yield>>

\* tags line 158, recipes line 62: the content is JSON of another shape;
\* `'values' in tag_data` raises TypeError on a number, `recipe_data.get` raises
\* AttributeError on a list, and no handler of the writer catches either
entry_raise ==
    /\ b_pc = "entry_head"
    /\ b_entry <= Len(CurFiles)
    /\ load_json_from_jar(CurEntry) = "other_shape"
    /\ b_pc' = "raised"
    /\ UNCHANGED <<b_kind, mods_list, batch_start, b_mod, b_entry, b_items, open_handles,
                   file_cache, disk, item_to_tags_written, recipe_counts_by_type, touched>>
    /\ UNCHANGED <<cleanVars, resolveVars, scanVars, entryVars, discoverVars, b_log, rd_args, rd_yield>>

\* str.startswith
StartsWith(s, prefix) == Len(s) >= Len(prefix) /\ SubSeq(s, 1, Len(prefix)) = prefix

\* core/utils/item.py: the id starts with '#'
is_tag_reference(item_id) == StartsWith(item_id, "#")

\* core/utils/item.py: not empty, holds ':' and does not start with '#'
is_valid_item_id(item_id) ==
    item_id # "" /\ Contains(item_id, ":") /\ ~StartsWith(item_id, "#")

\* line.split()[0]
FirstToken(line) == IF Contains(line, " ") THEN SplitHead(line, " ") ELSE line

\* read_item_lines over the lines of a file: empty lines are dropped; with
\* skip_comments a '#' line is dropped when it is the "#TAG:" marker or when
\* skip_tag_refs is set; of the id of a line that is left, a valid item id is yielded,
\* and a tag reference unless skip_tag_refs is set
read_item_lines(lines, skip_comments, skip_tag_refs, handle_metadata) ==
    LET passed(line) ==
          /\ line # ""
          /\ ~( /\ skip_comments
                /\ StartsWith(line, "#")
                /\ (StartsWith(line, "#TAG:") \/ skip_tag_refs) )
        id(line) == IF handle_metadata THEN FirstToken(line) ELSE line
        yielded(line) ==
          \/ is_valid_item_id(id(line))
          \/ ~skip_tag_refs /\ is_tag_reference(id(line))
        kept == SelectSeq(lines, LAMBDA line : passed(line) /\ yielded(line))
    IN  [i \in 1..Len(kept) |-> id(kept[i])]

\* a reader of the scan results calls read_item_lines on a tag-to-items file the tag
\* writer has left
reader_call ==
    /\ b_pc = "done"
    /\ b_kind = "tags"
    /\ \E path \in { f \in DOMAIN disk : StartsWith(f, "tag_to_items/") },
          skip_comments \in BOOLEAN, skip_tag_refs \in BOOLEAN, handle_metadata \in BOOLEAN :
         /\ rd_args' = [file_path |-> path, skip_comments |-> skip_comments,
                        skip_tag_refs |-> skip_tag_refs, handle_metadata |-> handle_metadata]
         /\ rd_yield' = read_item_lines(disk[path], skip_comments, skip_tag_refs,
                                        handle_metadata)
    /\ b_pc' = "read"
    /\ UNCHANGED <<b_kind, mods_list, batch_start, b_mod, b_entry, b_items, open_handles,
                   file_cache, disk, item_to_tags_written, recipe_counts_by_type, touched,
                   b_log>>
    /\ UNCHANGED <<cleanVars, resolveVars, scanVars, entryVars, discoverVars>>

\* `sub in s`
HasSub(s, sub) == \E i \in 1..(Len(s) - Len(sub) + 1) : SubSeq(s, i, i + Len(sub) - 1) = sub

\* categorize.py, lines 32-41: the categories and the tag names each takes
category_names ==
    { "c_tags", "forge_ores", "forge_ingots", "minecraft_mineable", "forge_storage_blocks",
      "forge_nuggets", "forge_dusts", "forge_gems" }

category_rules(category, tag) ==
    CASE category = "c_tags" -> StartsWith(tag, "c:")
      [] category = "forge_ores" -> HasSub(tag, "forge:ores")
      [] category = "forge_ingots" -> HasSub(tag, "forge:ingots")
      [] category = "minecraft_mineable" -> StartsWith(tag, "minecraft:mineable/")
      [] category = "forge_storage_blocks" -> HasSub(tag, "forge:storage_blocks")
      [] category = "forge_nuggets" -> HasSub(tag, "forge:nuggets")
      [] category = "forge_dusts" -> HasSub(tag, "forge:dusts")
      [] category = "forge_gems" -> HasSub(tag, "forge:gems")

\* the mutant: the files of the directories below dir are found as well
rglob_txt(d, dir) ==
    { p \in DOMAIN d : StartsWith(p, dir \o "/") /\ EndsWith(p, ".txt") }

\* dir.glob('*.txt'): the .txt files that lie in dir itself, not in a directory below it
glob_txt(d, dir) ==
    { p \in DOMAIN d :
        /\ StartsWith(p, dir \o "/")
        /\ EndsWith(p, ".txt")
        /\ ~Contains(SubSeq(p, Len(dir) + 2, Len(p)), "/") }

\* lines 73-82: the tag name of a tag_to_items file, from its first line
tag_name_of(lines) ==
    IF lines # <<>> /\ StartsWith(lines[1], "#TAG:")
      THEN SubSeq(lines[1], 6, Len(lines[1]))
      ELSE ""

\* lines 86-92: the items read from the file, without the "#TAG:" line
items_in_tag(lines) ==
    SelectSeq(read_item_lines(lines, FALSE, FALSE, FALSE),
              LAMBDA item : ~StartsWith(item, "#TAG:"))

\* lines 67-101: category -> items, from the tag_to_items files the glob finds
category_items(d) ==
    [category \in category_names |->
       UNION { { item \in SeqToSet(items_in_tag(d[p])) : ~is_tag_reference(item) }
               : p \in { q \in glob_txt(d, "tag_to_items") :
                            /\ tag_name_of(d[q]) # ""
                            /\ category_rules(category, tag_name_of(d[q])) } }]

category_file(category) == "categories/by_tag/" \o category \o ".txt"

\* categorize_from_disk_tags(output_dir), after tag discovery: the categories are
\* gathered from the tag_to_items files and each category that has items is written
categorize_from_disk_tags ==
    /\ b_pc = "done"
    /\ b_kind = "tags"
    /\ LET found == category_items(disk)
           written == { c \in category_names : found[c] # {} }
       IN  disk' = [p \in (DOMAIN disk) \cup { category_file(c) : c \in written } |->
                      IF p \in DOMAIN disk THEN disk[p]
                      ELSE Sorted(found[CHOOSE c \in written : category_file(c) = p])]
    /\ b_pc' = "categorized"
    /\ UNCHANGED <<b_kind, mods_list, batch_start, b_mod, b_entry, b_items, open_handles,
                   file_cache, item_to_tags_written, recipe_counts_by_type, touched,
                   b_log, rd_args, rd_yield>>
    /\ UNCHANGED <<cleanVars, resolveVars, scanVars, entryVars, discoverVars>>

NextBatch ==
    \/ entry_skip
    \/ entry_raise
    \/ batch_begin
    \/ batches_done
    \/ final_close
    \/ mod_begin
    \/ batch_boundary
    \/ mod_end
    \/ tag_file_open
    \/ tag_file_close
    \/ tag_items_file_open
    \/ tag_items_file_close
    \/ item_to_tags_write
    \/ tag_done
    \/ recipe_by_type
    \/ recipe_untyped
    \/ recipe_inputs_open
    \/ recipe_items_write
    \/ mod_file_open
    \/ mod_file_close
    \/ reader_call
    \/ categorize_from_disk_tags

(***************************************************************************)
(* Scan orchestrator                                                       *)
(***************************************************************************)

MaxJars == 2
MaxWorkers == 2

\* config.category_suffix of the block scanner
category_suffix == "_blocks"

raw_file(namespace) == "raw/" \o namespace \o category_suffix \o "_raw.txt"
cleaned_file(namespace) == "cleaned/" \o namespace \o category_suffix \o ".txt"

\* sorted(S) for the strings of the scans
ScanOrder == << "gem", "mymod:gem", "mymod:ore", "ore", "other:gem", "other:ore" >>
ScanSorted(S) == SelectSeq(ScanOrder, LAMBDA x : x \in S)

\* the keys of results_by_namespace, in insertion order
RECURSIVE NamespacesOf(_)
NamespacesOf(entries) ==
    IF entries = <<>> THEN <<>>
    ELSE <<Head(entries).namespace>>
           \o SelectSeq(NamespacesOf(Tail(entries)),
                        LAMBDA n : n # Head(entries).namespace)

\* results_by_namespace[namespace]
ObjectsOf(entries, namespace) ==
    LET sel == SelectSeq(entries, LAMBDA e : e.namespace = namespace)
    IN  [i \in 1..Len(sel) |-> sel[i].obj_id]

\* BaseScannerProcessor.process_jar: one result per namespace of the archive; an archive
\* that is no ZIP container is logged as a bad zip file and gives no result
process_jar(jar) ==
    IF jar.readable
      THEN LET nss == NamespacesOf(jar.entries)
           IN  [ results |-> [i \in 1..Len(nss) |->
                                [ namespace  |-> nss[i],
                                  objects    |-> ObjectsOf(jar.entries, nss[i]),
                                  source_jar |-> jar.name ]],
                 warned |-> FALSE ]
      ELSE [ results |-> <<>>, warned |-> TRUE ]

\* log(message, level): one more record of that level about that subject
Log(log, level, about) ==
    LET r == [level |-> level, about |-> about]
    IN  [x \in (DOMAIN log) \cup {r} |->
           (IF x \in DOMAIN log THEN log[x] ELSE 0) + (IF x = r THEN 1 ELSE 0)]

\* an acquire that never waits
NeverHeld(locks, lock) == TRUE

\* lock.acquire() of the lock get_lock(path) returns: the call returns once no task
\* holds the lock
LockFree(locks, lock) == locks[lock] = 0

\* _write_locks_lock does not exclude anyone
GlobalIgnored(holder) == TRUE

\* file_operations.py line 29: `with _write_locks_lock` is entered when no thread is inside
GlobalFree(holder) == holder = 0

\* a handler that lets the exception of future.result() pass
except_nothing(exc) == FALSE

\* `except Exception`: the classes the handler of execute_concurrent catches
except_Exception(exc) == exc \in {"Exception", "OSError", "ValueError"}

\* the lines of _write_raw_result for a result
RawLines(result) ==
    [i \in 1..Len(result.objects) |-> result.namespace \o ":" \o result.objects[i]]

\* AssetScannerProcessor.clean_results: each result cleaned on its own, empty ones dropped
clean_results(raw_results) ==
    LET cleaned(result) ==
          [ namespace  |-> result.namespace,
            objects    |-> ScanSorted({ clean(result.objects[i]) :
                                          i \in 1..Len(result.objects) } \ {""}),
            source_jar |-> result.source_jar ]
    IN  SelectSeq([i \in 1..Len(raw_results) |-> cleaned(raw_results[i])],
                  LAMBDA r : r.objects # <<>>)

\* the lines _write_cleaned_result writes for a result
CleanedLines(result) ==
    LET unique_objects ==
          ScanSorted({ result.namespace \o ":" \o clean(result.objects[i]) :
                         i \in { k \in 1..Len(result.objects) :
                                   clean(result.objects[k]) # "" } })
    IN  [i \in 1..Len(unique_objects) |-> [text |-> unique_objects[i], by |-> <<0, 0>>]]

\* `for result in cleaned_results: self._write_cleaned_result(result, config)`: each
\* call opens the file of the namespace with mode "w"
RECURSIVE WriteCleaned(_, _)
WriteCleaned(d, results) ==
    IF results = <<>> THEN d
    ELSE WriteCleaned(DictSet(d, cleaned_file(Head(results).namespace),
                              CleanedLines(Head(results))),
                      Tail(results))

RECURSIVE LogCleaned(_, _)
LogCleaned(log, results) ==
    IF results = <<>> THEN log
    ELSE LogCleaned(Log(log, "CLEAN", cleaned_file(Head(results).namespace)), Tail(results))

\* ---- inputs of the scans ----
JarNames == << "a.jar", "b.jar", "c.jar", "d.jar" >>

\* the entries of an archive that pass the entry filter, in namelist order
JarContents ==
    { << [namespace |-> "mymod", obj_id |-> "ore"], [namespace |-> "mymod", obj_id |-> "ore_top"] >>,
      << [namespace |-> "other", obj_id |-> "ore"], [namespace |-> "mymod", obj_id |-> "gem"] >> }

JarChoices(i) ==
    { [name |-> JarNames[i], readable |-> TRUE, entries |-> c] : c \in JarContents }
      \cup { [name |-> JarNames[i], readable |-> FALSE, entries |-> <<>>] }

JarLists ==
    UNION { { q \in [1..n -> UNION { JarChoices(i) : i \in 1..n }] :
                \A i \in 1..n : q[i] \in JarChoices(i) } : n \in 0..MaxJars }

\* no task has called get_lock yet
NoCalls(js) == [j \in 1..Len(js) |-> [path |-> "", missing |-> FALSE, lock |-> 0]]

QueuedTasks(js) == [j \in 1..Len(js) |-> [pc |-> "queued", res |-> 0, line |-> 0, exc |-> ""]]

ScanIdle ==
    /\ s_pc = "idle"
    /\ jars = <<>>
    /\ max_workers = 0
    /\ workers_n = 0
    /\ unwritable = {}
    /\ task = <<>>
    /\ all_results = <<>>
    /\ write_locks = <<>>
    /\ write_locks_lock = 0
    /\ lock_objs = <<>>
    /\ got = <<>>
    /\ invoked = <<>>
    /\ s_disk = <<>>
    /\ s_log = <<>>
    /\ s_run = 0
    /\ s_out1 = <<>>

\* run_scan is entered with one worker, on empty output directories
ScanInit ==
    /\ jars \in JarLists
    /\ workers_n \in 1..MaxWorkers
    /\ unwritable \in { {}, {raw_file("other")} }
    /\ s_pc = "start"
    /\ max_workers = 1
    /\ task = QueuedTasks(jars)
    /\ all_results = <<>>
    /\ write_locks = <<>>
    /\ write_locks_lock = 0
    /\ lock_objs = <<>>
    /\ got = NoCalls(jars)
    /\ invoked = [j \in 1..Len(jars) |-> 0]
    /\ s_disk = <<>>
    /\ s_log = <<>>
    /\ s_run = 1
    /\ s_out1 = <<>>

\* ---- the scan ----
\* the local `results` of the process_wrapper call for archive j
results(j) == process_jar(jars[j]).results

\* the tasks a worker thread is running
Running == { j \in DOMAIN task :
               task[j].pc \in {"process", "results", "get_lock", "with_lock", "writing"} }

SetTask(j, pc, res, line, exc) ==
    task' = [task EXCEPT ![j] = [pc |-> pc, res |-> res, line |-> line, exc |-> exc]]

\* run_scan, lines 62-64: no archive found
no_jars ==
    /\ s_pc = "start"
    /\ jars = <<>>
    /\ s_log' = Log(s_log, "ERROR", "No JAR files found")
    /\ s_pc' = "done"
    /\ UNCHANGED <<jars, max_workers, workers_n, unwritable, task, all_results, write_locks,
                   s_disk, s_run, s_out1>>
    /\ UNCHANGED <<write_locks_lock, lock_objs, got>>
    /\ UNCHANGED invoked
    /\ UNCHANGED <<cleanVars, resolveVars, batchVars, entryVars, discoverVars>>

\* execute_concurrent, lines 42-46: the pool is created and every archive is submitted
submit_all ==
    /\ s_pc = "start"
    /\ jars # <<>>
    /\ s_pc' = "pool"
    /\ UNCHANGED <<jars, max_workers, workers_n, unwritable, task, all_results, write_locks,
                   s_disk, s_log, s_run, s_out1>>
    /\ UNCHANGED <<write_locks_lock, lock_objs, got>>
    /\ UNCHANGED invoked
    /\ UNCHANGED <<cleanVars, resolveVars, batchVars, entryVars, discoverVars>>

\* a worker thread that is free takes the task at the head of the queue
task_start(j) ==
    /\ s_pc = "pool"
    /\ task[j].pc = "queued"
    /\ \A i \in 1..(j - 1) : task[i].pc # "queued"
    /\ Cardinality(Running) < max_workers
    /\ SetTask(j, "process", 0, 0, "")
    /\ invoked' = [invoked EXCEPT ![j] = @ + 1]
    /\ UNCHANGED <<s_pc, jars, max_workers, workers_n, unwritable, all_results, write_locks,
                   s_disk, s_log, s_run, s_out1>>
    /\ UNCHANGED <<write_locks_lock, lock_objs, got>>
    /\ UNCHANGED <<cleanVars, resolveVars, batchVars, entryVars, discoverVars>>

\* process_wrapper, lines 73-74: the archive is processed, all_results is extended
process_wrapper(j) ==
    /\ s_pc = "pool"
    /\ task[j].pc = "process"
    /\ all_results' = all_results \o results(j)
    /\ s_log' = IF process_jar(jars[j]).warned THEN Log(s_log, "WARN", jars[j].name)
                ELSE s_log
    /\ SetTask(j, IF results(j) = <<>> THEN "finished" ELSE "results", 1, 0, "")
    /\ UNCHANGED <<s_pc, jars, max_workers, workers_n, unwritable, write_locks, s_disk,
                   s_run, s_out1>>
    /\ UNCHANGED <<write_locks_lock, lock_objs, got>>
    /\ UNCHANGED invoked
    /\ UNCHANGED <<cleanVars, resolveVars, batchVars, entryVars, discoverVars>>

\* append_text_lines, line 131, get_lock lines 29-30: the task enters
\* `with _write_locks_lock` and tests `path not in _write_locks`
get_lock_enter(j) ==
    /\ s_pc = "pool"
    /\ task[j].pc = "results"
    /\ GlobalFree(write_locks_lock)
    /\ LET path == raw_file(results(j)[task[j].res].namespace) IN
         got' = [got EXCEPT ![j] = [path |-> path, missing |-> path \notin DOMAIN write_locks,
                                    lock |-> 0]]
    /\ write_locks_lock' = j
    /\ SetTask(j, "get_lock", task[j].res, 0, "")
    /\ UNCHANGED <<s_pc, jars, max_workers, workers_n, unwritable, all_results, write_locks,
                   lock_objs, s_disk, s_log, s_run, s_out1>>
    /\ UNCHANGED invoked
    /\ UNCHANGED <<cleanVars, resolveVars, batchVars, entryVars, discoverVars>>

\* get_lock, lines 31-32: a missing path gets a new threading.Lock(); the lock stored
\* for the path is returned and _write_locks_lock is left
get_lock_return(j) ==
    /\ s_pc = "pool"
    /\ task[j].pc = "get_lock"
    /\ LET path == got[j].path
           new == Len(lock_objs) + 1
       IN  IF got[j].missing
             THEN /\ lock_objs' = Append(lock_objs, 0)
                  /\ write_locks' = DictSet(write_locks, path, new)
                  /\ got' = [got EXCEPT ![j].lock = new]
             ELSE /\ got' = [got EXCEPT ![j].lock = write_locks[path]]
                  /\ UNCHANGED <<lock_objs, write_locks>>
    /\ write_locks_lock' = 0
    /\ SetTask(j, "with_lock", task[j].res, 0, "")
    /\ UNCHANGED <<s_pc, jars, max_workers, workers_n, unwritable, all_results, s_disk,
                   s_log, s_run, s_out1>>
    /\ UNCHANGED invoked
    /\ UNCHANGED <<cleanVars, resolveVars, batchVars, entryVars, discoverVars>>

\* append_text_lines, lines 132-133: the lock get_lock returned is taken and the file
\* is opened for appending; an open that fails raises out of the task
append_enter(j) ==
    /\ s_pc = "pool"
    /\ task[j].pc = "with_lock"
    /\ LockFree(lock_objs, got[j].lock)
    /\ IF got[j].path \in unwritable
         THEN /\ SetTask(j, "failed", task[j].res, 0, "OSError")
              /\ UNCHANGED <<s_disk, lock_objs>>
         ELSE /\ lock_objs' = [lock_objs EXCEPT ![got[j].lock] = j]
              /\ SetTask(j, "writing", task[j].res, 1, "")
              /\ s_disk' = DictSet(s_disk, got[j].path, ReadFile(s_disk, got[j].path))
    /\ UNCHANGED <<s_pc, jars, max_workers, workers_n, unwritable, all_results, write_locks,
                   s_log, s_run, s_out1>>
    /\ UNCHANGED <<write_locks_lock, got>>
    /\ UNCHANGED invoked
    /\ UNCHANGED <<cleanVars, resolveVars, batchVars, entryVars, discoverVars>>

\* append_text_lines, line 134: the next line reaches the file (the buffer of the file
\* object may be flushed after any line)
append_write(j) ==
    /\ s_pc = "pool"
    /\ task[j].pc = "writing"
    /\ LET result == results(j)[task[j].res]
           path == raw_file(result.namespace)
       IN  /\ task[j].line <= Len(RawLines(result))
           /\ s_disk' = DictSet(s_disk, path,
                                Append(s_disk[path],
                                       [ text |-> RawLines(result)[task[j].line],
                                         by   |-> <<j, task[j].res>> ]))
    /\ SetTask(j, "writing", task[j].res, task[j].line + 1, "")
    /\ UNCHANGED <<s_pc, jars, max_workers, workers_n, unwritable, all_results, write_locks,
                   s_log, s_run, s_out1>>
    /\ UNCHANGED <<write_locks_lock, lock_objs, got>>
    /\ UNCHANGED invoked
    /\ UNCHANGED <<cleanVars, resolveVars, batchVars, entryVars, discoverVars>>

\* append_text_lines returns: the file is closed and the lock released; after the last
\* result the task returns
append_exit(j) ==
    /\ s_pc = "pool"
    /\ task[j].pc = "writing"
    /\ LET result == results(j)[task[j].res] IN
         /\ task[j].line > Len(RawLines(result))
         /\ lock_objs' = [lock_objs EXCEPT ![got[j].lock] = 0]
    /\ SetTask(j, IF task[j].res >= Len(results(j)) THEN "finished" ELSE "results",
               task[j].res + 1, 0, "")
    /\ UNCHANGED <<s_pc, jars, max_workers, workers_n, unwritable, all_results, write_locks,
                   s_disk, s_log, s_run, s_out1>>
    /\ UNCHANGED <<write_locks_lock, got>>
    /\ UNCHANGED invoked
    /\ UNCHANGED <<cleanVars, resolveVars, batchVars, entryVars, discoverVars>>

\* execute_concurrent, lines 48-54: as_completed yields a future that is done and
\* future.result() returns or raises what the task raised
future_result(j) ==
    /\ s_pc = "pool"
    /\ task[j].pc \in {"finished", "failed"}
    /\ SetTask(j, "handled", task[j].res, 0, task[j].exc)
    /\ IF task[j].exc = "" THEN UNCHANGED <<s_pc, s_log>>
       ELSE IF except_Exception(task[j].exc)
              THEN /\ s_log' = Log(s_log, "THREAD ERROR",
                                   raw_file(results(j)[task[j].res].namespace))
                   /\ UNCHANGED s_pc
              ELSE /\ s_pc' = "raised"
                   /\ UNCHANGED s_log
    /\ UNCHANGED <<jars, max_workers, workers_n, unwritable, all_results, write_locks,
                   s_disk, s_run, s_out1>>
    /\ UNCHANGED <<write_locks_lock, lock_objs, got>>
    /\ UNCHANGED invoked
    /\ UNCHANGED <<cleanVars, resolveVars, batchVars, entryVars, discoverVars>>

\* the loop ends with the first future that is done
first_completed(t) == \E j \in DOMAIN t : t[j].pc = "handled"

\* mutant: the pool is left as soon as every task has been started
all_started(t) == \A j \in DOMAIN t : t[j].pc # "queued"

\* execute_concurrent, lines 48-54: as_completed has yielded every future; the pool is
\* then shut down, which waits for every task
as_completed_exhausted(t) == \A j \in DOMAIN t : t[j].pc = "handled"

\* run_scan, lines 87-93: every future was taken and the pool is shut down; the results
\* are cleaned and the cleaned files written, one result after the other
clean_and_write ==
    /\ s_pc = "pool"
    /\ as_completed_exhausted(task)
    /\ LET cleaned_results == clean_results(all_results) IN
         /\ s_disk' = WriteCleaned(s_disk, cleaned_results)
         /\ s_log' = LogCleaned(s_log, cleaned_results)
    /\ s_pc' = "done"
    /\ UNCHANGED <<jars, max_workers, workers_n, unwritable, task, all_results, write_locks,
                   s_run, s_out1>>
    /\ UNCHANGED <<write_locks_lock, lock_objs, got>>
    /\ UNCHANGED invoked
    /\ UNCHANGED <<cleanVars, resolveVars, batchVars, entryVars, discoverVars>>

\* the files of the cleaned directory
CleanedFiles(d) ==
    [path \in { q \in DOMAIN d : SubSeq(q, 1, 8) = "cleaned/" } |-> d[path]]

\* the same archives are scanned again, on empty output directories, by workers_n workers
scan_rerun ==
    /\ s_pc = "done"
    /\ s_run = 1
    /\ s_out1' = CleanedFiles(s_disk)
    /\ s_run' = 2
    /\ max_workers' = workers_n
    /\ s_pc' = "start"
    /\ task' = QueuedTasks(jars)
    /\ all_results' = <<>>
    /\ write_locks' = <<>>
    /\ write_locks_lock' = 0
    /\ lock_objs' = <<>>
    /\ got' = NoCalls(jars)
    /\ invoked' = [j \in 1..Len(jars) |-> 0]
    /\ s_disk' = <<>>
    /\ s_log' = <<>>
    /\ UNCHANGED <<jars, workers_n, unwritable>>
    /\ UNCHANGED <<cleanVars, resolveVars, batchVars, entryVars, discoverVars>>

NextScan ==
    \/ no_jars
    \/ submit_all
    \/ \E j \in DOMAIN task : task_start(j)
    \/ \E j \in DOMAIN task : process_wrapper(j)
    \/ \E j \in DOMAIN task : get_lock_enter(j)
    \/ \E j \in DOMAIN task : get_lock_return(j)
    \/ \E j \in DOMAIN task : append_enter(j)
    \/ \E j \in DOMAIN task : append_write(j)
    \/ \E j \in DOMAIN task : append_exit(j)
    \/ \E j \in DOMAIN task : future_result(j)
    \/ clean_and_write
    \/ scan_rerun

\* ---- entry loop of an archive scan ----
\* BaseScannerProcessor.process_jar (and process_jar_entries, which has the same order of
\* steps) for the asset scanners, and process_jar of the recipe scanner: the loop over
\* zf.namelist() with the optional namespace filter.

MaxEntries == 2

UPPER == <<"A", "B", "C", "D", "E", "F", "G", "H", "I", "J", "K", "L", "M",
           "N", "O", "P", "Q", "R", "S", "T", "U", "V", "W", "X", "Y", "Z">>
LOWER == <<"a", "b", "c", "d", "e", "f", "g", "h", "i", "j", "k", "l", "m",
           "n", "o", "p", "q", "r", "s", "t", "u", "v", "w", "x", "y", "z">>

\* str.lower()
RECURSIVE Lower(_)
Lower(s) ==
    IF s = "" THEN ""
    ELSE LET c == SubSeq(s, 1, 1)
             up == { i \in 1..Len(UPPER) : UPPER[i] = c }
         IN  (IF up = {} THEN c ELSE LOWER[CHOOSE i \in up : TRUE])
               \o Lower(SubSeq(s, 2, Len(s)))

\* name.split("/")
RECURSIVE Split(_)
Split(name) ==
    IF Contains(name, "/")
      THEN <<SplitHead(name, "/")>> \o Split(SplitTail(name, "/"))
      ELSE <<name>>

\* Path("/".join(parts)).stem: the last component without its last suffix
Stem(parts) ==
    LET p == parts[Len(parts)]
        dots == { i \in 2..Len(p) : SubSeq(p, i, i) = "." }
    IN  IF dots = {} \/ EndsWith(p, ".") THEN p
        ELSE SubSeq(p, 1, (CHOOSE i \in dots : \A j \in dots : j <= i) - 1)

None == "<None>"

\* BlockEntryFilter.filter(path_parts): the object id of a block asset, else None
entry_filter(path_parts) ==
    IF Len(path_parts) < 4 \/ path_parts[1] # "assets" THEN None
    ELSE IF SubSeq(path_parts, 3, 4) \in { <<"models", "block">>, <<"textures", "block">> }
      THEN Stem(path_parts)
      ELSE None

\* BaseScannerProcessor._extract_namespace(parts)
extract_namespace(parts) ==
    IF Len(parts) >= 2 /\ parts[1] \in {"assets", "data"} THEN parts[2] ELSE None

\* mutant: the filter compares the namespaces as they are written
SameSpelling(namespace, filter) == namespace = filter

\* namespace.lower() != config.namespace_filter.lower() sends the entry away
namespace_matches(namespace, filter) == Lower(namespace) = Lower(filter)

\* extract_results_from_json(content) of the recipe entries of the archives below
recipe_results(name) ==
    IF name = "data/other/recipes/cake.json" THEN <<"other:cake", "minecraft:stick">>
    ELSE IF name = "data/MyMod/recipes/pie.json" THEN <<"mymod:pie">>
    ELSE <<>>

EntryNames ==
    { "assets/mymod/textures/block/ore.png", "assets/MyMod/models/block/gem.json",
      "assets/other/textures/block/ore.png", "assets/other/lang/en_us.json",
      "assets/mymod/", "pack.mcmeta",
      "data/other/recipes/cake.json", "data/MyMod/recipes/pie.json",
      "data/mymod/tags/items/ores.json" }

NameLists == UNION { [1..n -> EntryNames] : n \in 0..MaxEntries }

Filters == { "", "mymod", "MYMOD", "my" }

EntryIdle ==
    /\ e_pc = "idle"
    /\ e_kind = "asset"
    /\ zf_namelist = <<>>
    /\ namespace_filter = ""
    /\ e_idx = 0
    /\ e_work = <<>>
    /\ e_found = <<>>

EntryInit ==
    /\ e_pc = "loop"
    /\ e_kind \in {"asset", "recipe"}
    /\ zf_namelist \in NameLists
    /\ namespace_filter \in Filters
    /\ e_idx = 1
    /\ e_work = <<>>
    /\ e_found = <<>>

\* What one iteration of the loop of BaseScannerProcessor.process_jar does with the name:
\* the operations on the entry, in order, and the pair it appends (None: nothing)
asset_steps(name, filter) ==
    IF EndsWith(name, "/") THEN [ops |-> <<>>, add |-> None]
    ELSE LET parts == Split(name)
             obj_id == entry_filter(parts)
             namespace == extract_namespace(parts)
         IN  IF obj_id = None THEN [ops |-> <<"classify">>, add |-> None]
             ELSE IF namespace = None THEN [ops |-> <<"classify">>, add |-> None]
             ELSE IF filter # "" /\ ~namespace_matches(namespace, filter)
               THEN [ops |-> <<"classify">>, add |-> None]
               ELSE [ops |-> <<"classify", "record">>, add |-> <<namespace, obj_id>>]

\* One iteration of the loop of process_jar of the recipe scanner; include_minecraft is
\* left at its default, False
recipe_steps(name, filter) ==
    LET parts == Split(name) IN
      IF Len(parts) < 4 \/ parts[1] # "data" THEN [ops |-> <<>>, add |-> <<>>]
      ELSE IF filter # "" /\ ~namespace_matches(parts[2], filter)
        THEN [ops |-> <<>>, add |-> <<>>]
      ELSE IF ~StartsWith(parts[3], "recipe") \/ ~EndsWith(name, ".json")
        THEN [ops |-> <<"classify">>, add |-> <<>>]
      ELSE LET kept == SelectSeq(recipe_results(name),
                                 LAMBDA rid : ~StartsWith(rid, "minecraft:"))
           IN  [ops |-> <<"classify", "read">> \o (IF kept = <<>> THEN <<>> ELSE <<"record">>),
                add |-> [i \in 1..Len(kept) |-> <<parts[2], kept[i]>>]]

WorkOn(ops, idx) == [i \in 1..Len(ops) |-> <<ops[i], idx>>]

asset_entry ==
    /\ e_pc = "loop"
    /\ e_kind = "asset"
    /\ e_idx <= Len(zf_namelist)
    /\ LET st == asset_steps(zf_namelist[e_idx], namespace_filter) IN
         /\ e_work' = e_work \o WorkOn(st.ops, e_idx)
         /\ e_found' = IF st.add = None THEN e_found ELSE Append(e_found, st.add)
    /\ e_idx' = e_idx + 1
    /\ UNCHANGED <<e_pc, e_kind, zf_namelist, namespace_filter>>
    /\ UNCHANGED <<cleanVars, resolveVars, batchVars, scanVars, discoverVars>>

recipe_entry ==
    /\ e_pc = "loop"
    /\ e_kind = "recipe"
    /\ e_idx <= Len(zf_namelist)
    /\ LET st == recipe_steps(zf_namelist[e_idx], namespace_filter) IN
         /\ e_work' = e_work \o WorkOn(st.ops, e_idx)
         /\ e_found' = e_found \o SelectSeq(st.add,
                                    LAMBDA pr : \A k \in 1..Len(e_found) : e_found[k] # pr)
    /\ e_idx' = e_idx + 1
    /\ UNCHANGED <<e_pc, e_kind, zf_namelist, namespace_filter>>
    /\ UNCHANGED <<cleanVars, resolveVars, batchVars, scanVars, discoverVars>>

entries_done ==
    /\ e_pc = "loop"
    /\ e_idx > Len(zf_namelist)
    /\ e_pc' = "done"
    /\ UNCHANGED <<e_kind, zf_namelist, namespace_filter, e_idx, e_work, e_found>>
    /\ UNCHANGED <<cleanVars, resolveVars, batchVars, scanVars, discoverVars>>

NextEntries ==
    \/ asset_entry
    \/ recipe_entry
    \/ entries_done

\* ---- mod discovery and the scans over the discovered mods ----
\* core.scanner.scan: discover_mods_and_namespaces fills the dict mods, and tag discovery
\* and recipe discovery each go through list(mods.items()).

MaxFound == 3

\* The archives of the input directory: the id its metadata files declare ("": none) and
\* the first namespace under data/ that is not minecraft, forge or c ("": none)
JarPool ==
    { [name |-> "lib-1.0.jar", declared |-> "lib", first_namespace |-> "lib"],
      [name |-> "lib-1.1.jar", declared |-> "lib", first_namespace |-> "lib"],
      [name |-> "ore.jar",     declared |-> "",    first_namespace |-> "ore"],
      [name |-> "fork.jar",    declared |-> "",    first_namespace |-> "lib"],
      [name |-> "plain.jar",   declared |-> "",    first_namespace |-> ""] }

\* the orders in which glob can list up to MaxFound archives of the pool
FoundLists ==
    UNION { { q \in [1..n -> JarPool] : \A i, j \in 1..n : q[i] = q[j] => i = j }
            : n \in 0..MaxFound }

\* extract_mod_id_from_jar: the declared id, else the first namespace, else the file
\* name without its extension
extract_mod_id_from_jar(jar) ==
    IF jar.declared # "" THEN jar.declared
    ELSE IF jar.first_namespace # "" THEN jar.first_namespace
    ELSE Stem(<<jar.name>>)

\* mutant: every archive gets an entry of its own
mods_append(items, mod_id, jar_file) ==
    Append(items, [mod_id |-> mod_id, jar_path |-> jar_file])

\* mods[mod_id] = jar_file: a key the dict holds keeps its place and gets the new value
mods_assign(items, mod_id, jar_file) ==
    IF \E k \in 1..Len(items) : items[k].mod_id = mod_id
      THEN [k \in 1..Len(items) |->
              IF items[k].mod_id = mod_id THEN [mod_id |-> mod_id, jar_path |-> jar_file]
              ELSE items[k]]
      ELSE Append(items, [mod_id |-> mod_id, jar_path |-> jar_file])

DiscoverIdle ==
    /\ d_pc = "idle"
    /\ found_jars = <<>>
    /\ d_idx = 0
    /\ mods_items = <<>>
    /\ tag_scans = <<>>
    /\ recipe_scans = <<>>

DiscoverInit ==
    /\ d_pc = "discover"
    /\ found_jars \in FoundLists
    /\ d_idx = 1
    /\ mods_items = <<>>
    /\ tag_scans = <<>>
    /\ recipe_scans = <<>>

\* mods.py, lines 91-93: one archive of jar_files
discover_mod ==
    /\ d_pc = "discover"
    /\ d_idx <= Len(found_jars)
    /\ mods_items' = mods_assign(mods_items, extract_mod_id_from_jar(found_jars[d_idx]),
                           found_jars[d_idx].name)
    /\ d_idx' = d_idx + 1
    /\ UNCHANGED <<d_pc, found_jars, tag_scans, recipe_scans>>
    /\ UNCHANGED <<cleanVars, resolveVars, batchVars, scanVars, entryVars>>

\* scan, lines 58-60: discovery returns; without mods the scan ends
discovery_done ==
    /\ d_pc = "discover"
    /\ d_idx > Len(found_jars)
    /\ d_pc' = IF mods_items = <<>> THEN "done" ELSE "tags"
    /\ d_idx' = 1
    /\ UNCHANGED <<found_jars, mods_items, tag_scans, recipe_scans>>
    /\ UNCHANGED <<cleanVars, resolveVars, batchVars, scanVars, entryVars>>

\* tags.py, lines 120-131: the archive of one item of mods is opened and scanned
scan_tags_mod ==
    /\ d_pc = "tags"
    /\ d_idx <= Len(mods_items)
    /\ tag_scans' = Append(tag_scans, mods_items[d_idx].jar_path)
    /\ d_idx' = d_idx + 1
    /\ UNCHANGED <<d_pc, found_jars, mods_items, recipe_scans>>
    /\ UNCHANGED <<cleanVars, resolveVars, batchVars, scanVars, entryVars>>

\* recipes.py, lines 147-164: the archive of one item of mods is opened and scanned
scan_recipes_mod ==
    /\ d_pc = "recipes"
    /\ d_idx <= Len(mods_items)
    /\ recipe_scans' = Append(recipe_scans, mods_items[d_idx].jar_path)
    /\ d_idx' = d_idx + 1
    /\ UNCHANGED <<d_pc, found_jars, mods_items, tag_scans>>
    /\ UNCHANGED <<cleanVars, resolveVars, batchVars, scanVars, entryVars>>

\* scan, lines 74-77: tag discovery returns and recipe discovery starts, or recipe
\* discovery returns
phase_done ==
    /\ d_pc \in {"tags", "recipes"}
    /\ d_idx > Len(mods_items)
    /\ d_pc' = IF d_pc = "tags" THEN "recipes" ELSE "done"
    /\ d_idx' = 1
    /\ UNCHANGED <<found_jars, mods_items, tag_scans, recipe_scans>>
    /\ UNCHANGED <<cleanVars, resolveVars, batchVars, scanVars, entryVars>>

NextDiscover ==
    \/ discover_mod
    \/ discovery_done
    \/ scan_tags_mod
    \/ scan_recipes_mod
    \/ phase_done

\* ---- specifications ----
InitClean == CleanInit /\ ResolveIdle /\ BatchIdle /\ ScanIdle /\ EntryIdle /\ DiscoverIdle

SpecClean == InitClean /\ [][NextClean]_vars

InitResolve == ResolveInit /\ CleanIdle /\ BatchIdle /\ ScanIdle /\ EntryIdle /\ DiscoverIdle

SpecResolve == InitResolve /\ [][NextResolve]_vars

InitBatch == BatchInit /\ CleanIdle /\ ResolveIdle /\ ScanIdle /\ EntryIdle /\ DiscoverIdle

SpecBatch == InitBatch /\ [][NextBatch]_vars

InitScan == ScanInit /\ CleanIdle /\ ResolveIdle /\ BatchIdle /\ EntryIdle /\ DiscoverIdle

SpecScan == InitScan /\ [][NextScan]_vars

InitEntries == EntryInit /\ CleanIdle /\ ResolveIdle /\ BatchIdle /\ ScanIdle /\ DiscoverIdle

SpecEntries == InitEntries /\ [][NextEntries]_vars

InitDiscover ==
    DiscoverInit /\ CleanIdle /\ ResolveIdle /\ BatchIdle /\ ScanIdle /\ EntryIdle

SpecDiscover == InitDiscover /\ [][NextDiscover]_vars

\* ---- claims on the scan orchestrator ----
\* the lines of the file at path that append call c wrote, in file order
BlockOf(path, c) ==
    LET sel == SelectSeq(ReadFile(s_disk, path), LAMBDA l : l.by = c)
    IN  [i \in 1..Len(sel) |-> sel[i].text]

\* the append calls of the tasks: <<archive, result>>
AppendCalls == UNION { { <<j, r>> : r \in 1..Len(results(j)) } : j \in DOMAIN task }

\* C1: in every state of every interleaving of the workers, the lines one append call
\* has written to a file stand there as one contiguous block, in the order of the call:
\* no line of another append call to the same path stands between them
C1_AppendsContiguous ==
    \A c \in AppendCalls :
      LET result == results(c[1])[c[2]]
          f == ReadFile(s_disk, raw_file(result.namespace))
      IN  /\ \A i, k \in 1..Len(f) :
                (i < k /\ f[i].by = c /\ f[k].by = c) => \A m \in i..k : f[m].by = c
          /\ Len(BlockOf(raw_file(result.namespace), c)) <= Len(RawLines(result))
          /\ BlockOf(raw_file(result.namespace), c)
               = SubSeq(RawLines(result), 1, Len(BlockOf(raw_file(result.namespace), c)))

\* a worker waits for the lock of a path while another worker, which holds it, has
\* written the first of its lines to that path
C1_Witness ==
    \E j1, j2 \in DOMAIN task :
      /\ j1 # j2
      /\ task[j1].pc = "writing" /\ task[j1].line = 2
      /\ task[j2].pc = "with_lock"
      /\ raw_file(results(j1)[task[j1].res].namespace)
           = raw_file(results(j2)[task[j2].res].namespace)
      /\ Len(ReadFile(s_disk, raw_file(results(j1)[task[j1].res].namespace))) = 1

RECURSIVE LogTotal(_, _)
LogTotal(log, recs) ==
    IF recs = {} THEN 0
    ELSE LET r == CHOOSE x \in recs : TRUE IN log[r] + LogTotal(log, recs \ {r})

\* the number of records of a level in the log
LogCount(level) == LogTotal(s_log, { r \in DOMAIN s_log : r.level = level })

FailedTasks == { j \in DOMAIN task : task[j].exc # "" }

\* C2: an exception raised by a task never reaches the caller of execute_concurrent;
\* when the scan is over every task was run and taken by the loop, one THREAD ERROR
\* record was logged per failed task, and every task that did not fail has processed
\* its archive to completion: its results are in all_results and all its raw lines are
\* in the raw files
C2_TaskErrorContained ==
    /\ s_pc # "raised"
    /\ (s_pc = "done" /\ jars # <<>>) =>
         /\ \A j \in DOMAIN task : task[j].pc = "handled"
         /\ LogCount("THREAD ERROR") = Cardinality(FailedTasks)
         /\ \A j \in (DOMAIN task) \ FailedTasks :
              \A r \in 1..Len(results(j)) :
                /\ \E n \in 1..Len(all_results) : all_results[n] = results(j)[r]
                /\ BlockOf(raw_file(results(j)[r].namespace), <<j, r>>)
                     = RawLines(results(j)[r])

\* a scan with several workers is over; one task failed, and a task submitted after it
\* has written its raw lines
C2_Witness ==
    /\ s_pc = "done"
    /\ max_workers > 1
    /\ \E j, k \in DOMAIN task :
         /\ j < k
         /\ task[j].exc # ""
         /\ task[k].exc = ""
         /\ results(k) # <<>>
         /\ BlockOf(raw_file(results(k)[1].namespace), <<k, 1>>) = RawLines(results(k)[1])

\* C4: the cleaned files the scan with workers_n workers leaves are the cleaned files
\* the scan of the same archives with one worker left, whatever the order in which the
\* workers ran and completed
C4_SameOutputForAnyWorkers ==
    (s_run = 2 /\ s_pc = "done") => CleanedFiles(s_disk) = s_out1

\* C13: a scan over a directory that holds no valid archive (no archive at all, or only
\* files that are no ZIP containers) ends with an error reported, not with a completed
\* run over empty output
C13_NoValidArchiveReported ==
    (s_pc = "done" /\ \A j \in DOMAIN jars : ~jars[j].readable) => LogCount("ERROR") >= 1

\* the tasks whose results are in the list all_results
Extended == { j \in DOMAIN task :
                \E n \in 1..Len(all_results) : all_results[n].source_jar = jars[j].name }

\* C14: apart from the lock map, no object is written by two workers that run at the
\* same time: the results of a running task are in no list that holds the results of
\* another running task
C14_OnlyLockMapShared ==
    \A j1, j2 \in Running : (j1 # j2) => ~(j1 \in Extended /\ j2 \in Extended)

\* the tasks whose get_lock call has returned
Returned == { j \in DOMAIN got : got[j].lock # 0 }

\* C16: under any interleaving of get_lock calls, calls for the same path return the
\* same lock object and calls for different paths return different ones; at most one
\* lock is ever created per path, and within a process run the lock of a path is
\* never dropped or replaced.
C16_OneLockPerPath ==
    /\ []( /\ \A j1, j2 \in Returned :
                (got[j1].path = got[j2].path) <=> (got[j1].lock = got[j2].lock)
           /\ \A j \in Returned : write_locks[got[j].path] = got[j].lock
           /\ Len(lock_objs) = Cardinality(DOMAIN write_locks) )
    /\ [][ s_run' = s_run =>
             \A path \in DOMAIN write_locks :
                 path \in DOMAIN write_locks' /\ write_locks'[path] = write_locks[path] ]_vars

\* two workers running at once have asked for the lock of the same path, after a call
\* for another path has returned too
C16_Witness ==
    \E j1, j2 \in Running :
      /\ j1 # j2
      /\ {j1, j2} \subseteq Returned
      /\ got[j1].path = got[j2].path
      /\ Cardinality(DOMAIN write_locks) >= 2

\* C17: when execute_concurrent has returned, the process function has been called
\* exactly once for every item of the list, whatever the worker count; it is never
\* called twice for an item, and for no item nothing is called.
C17_EachItemOnce ==
    /\ DOMAIN invoked = DOMAIN jars
    /\ \A j \in DOMAIN invoked : invoked[j] <= 1
    /\ (s_pc = "done") => \A j \in DOMAIN invoked : invoked[j] = 1

\* execute_concurrent has returned from a list of two archives run by two workers, one
\* of whose calls raised
C17_Witness ==
    /\ s_pc = "done"
    /\ Len(jars) = 2
    /\ max_workers = 2
    /\ \E j \in DOMAIN task : task[j].exc # ""
    /\ \A j \in DOMAIN invoked : invoked[j] = 1

\* C25: the cleaning phase starts only when no scan task is running any more: at the step
\* that reads the scan results for cleaning, every task has ended and been taken from
\* the pool, and every raw line of every task that did not fail is in its raw file.
C25_CleaningAfterAllAppends ==
    [][(s_pc = "pool" /\ s_pc' = "done") =>
         /\ Running = {}
         /\ \A j \in DOMAIN task : task[j].pc = "handled"
         /\ \A j \in (DOMAIN task) \ FailedTasks :
              \A r \in 1..Len(results(j)) :
                BlockOf(raw_file(results(j)[r].namespace), <<j, r>>) = RawLines(results(j)[r])
      ]_vars

\* two workers have each appended the raw lines of an archive, and the cleaning phase
\* has run after them
C25_Witness ==
    /\ s_pc = "done"
    /\ max_workers = 2
    /\ Len(jars) = 2
    /\ \A j \in DOMAIN task :
         /\ task[j].exc = ""
         /\ results(j) # <<>>
         /\ BlockOf(raw_file(results(j)[1].namespace), <<j, 1>>) = RawLines(results(j)[1])
    /\ DOMAIN CleanedFiles(s_disk) # {}

\* the normalized identifiers the results of the archives in J contribute to the cleaned
\* file of a namespace
Contributed(namespace, J) ==
    UNION { UNION { { namespace \o ":" \o clean(results(j)[r].objects[i]) :
                        i \in { k \in 1..Len(results(j)[r].objects) :
                                  clean(results(j)[r].objects[k]) # "" } }
                    : r \in { q \in 1..Len(results(j)) : results(j)[q].namespace = namespace } }
            : j \in J }

\* C27: after a run, the cleaned file of each namespace holds the sorted, duplicate-free
\* set of the normalized identifiers that the scanned archives contributed to it: every
\* identifier of every archive whose task did not fail is there, and nothing else than
\* identifiers of the scanned archives; no archive's contribution is overwritten by
\* another's.
C27_CleanedFileIsUnion ==
    (s_pc = "done" /\ jars # <<>>) =>
      \A namespace \in UNION { { results(j)[r].namespace : r \in 1..Len(results(j)) }
                                 : j \in DOMAIN task } :
        LET f == ReadFile(s_disk, cleaned_file(namespace))
            lines == { f[i].text : i \in 1..Len(f) }
        IN  /\ Contributed(namespace, (DOMAIN task) \ FailedTasks) \subseteq lines
            /\ lines \subseteq Contributed(namespace, DOMAIN task)
            /\ [i \in 1..Len(f) |-> f[i].text] = ScanSorted(lines)

\* ---- claims on unreadable archives ----
ReadableMods == SelectSeq(mods_list, LAMBDA m : m.readable)

\* the files the writer leaves for the archives of mods
OutputPaths(kind, mods) ==
    UNION { UNION { IF kind = "tags"
                      THEN {tag_file(m.files[n]), tag_items_file(m.files[n], mods)}
                             \cup { item_file_path(item_key(item, mods)) :
                                      item \in SeqToSet(m.files[n].values) }
                      ELSE {mod_file(m.id)}
                             \cup (IF m.files[n].type = "" THEN {}
                                   ELSE { type_file(sanitize_filename(m.files[n].type)),
                                          inputs_file(sanitize_filename(m.files[n].type)),
                                          outputs_file(sanitize_filename(m.files[n].type)) })
                    : n \in { k \in 1..Len(m.files) : m.files[k].json = "ok" } }
            : m \in SeqToSet(mods) }

\* C3: when the writer is done, every archive that is no ZIP container has one warning
\* logged for it, and the output files are the files of a run over the other archives
\* alone
C3_CorruptArchiveIsolated ==
    (b_pc = "done") =>
      /\ \A i \in DOMAIN mods_list :
           ~mods_list[i].readable =>
             Len(SelectSeq(b_log, LAMBDA r : r.level = "WARNING"
                                              /\ r.about = mods_list[i].id)) = 1
      /\ DOMAIN disk = OutputPaths(b_kind, ReadableMods)

\* ---- claims on malformed entries ----
\* the well-formed entries of the readable archives
WellFormedEntries ==
    UNION { { m.files[n] : n \in { k \in 1..Len(m.files) : m.files[k].json = "ok" } }
            : m \in SeqToSet(ReadableMods) }

\* C12: an entry whose content is no JSON or JSON of another shape never makes the
\* writer raise, and when the writer is done every well-formed entry of every archive
\* has been scanned: the tag file of every such tag entry holds its values, and every
\* such recipe that has a type is counted
C12_MalformedEntrySkipped ==
    /\ b_pc # "raised"
    /\ (b_pc = "done") =>
         \A e \in WellFormedEntries :
           IF b_kind = "tags"
             THEN tag_file(e) \in DOMAIN disk
             ELSE e.type # "" => e.type \in DOMAIN recipe_counts_by_type

\* ---- claims on the trace of skipped items ----
\* the archives and entries the writer skipped because of a failure, each by the name a
\* log line would identify it with
SkippedItems ==
    { mods_list[i].id : i \in { k \in DOMAIN mods_list : ~mods_list[k].readable } }
      \cup UNION { { file_path(b_kind, m.files[n]) :
                       n \in { k \in 1..Len(m.files) : m.files[k].json = "syntax_error" } }
                   : m \in SeqToSet(ReadableMods) }

\* C23: when the writer is done, every archive and entry it skipped because of a failure
\* has a log line that identifies it, and if anything was skipped the log holds a final
\* summary with the count of the skipped items; nothing is dropped without a trace.
C23_SkippedAreLoggedAndCounted ==
    (b_pc = "done") =>
      /\ \A x \in SkippedItems : \E k \in DOMAIN b_log : b_log[k].about = x
      /\ SkippedItems # {} =>
           \E k \in DOMAIN b_log : b_log[k].about = "skipped items"

\* ---- claims on the readers of the scan results ----
\* C20: whatever options read_item_lines is called with on a tag-to-items file, the
\* "#TAG:" marker line of the file is not among the ids it yields.
C20_MarkerNeverYielded ==
    (b_pc = "read") => \A i \in 1..Len(rd_yield) : ~StartsWith(rd_yield[i], "#TAG:")

\* ---- claims on tag extraction ----
\* the lines of the tag files and tag-to-items files on disk, the marker aside
TagFileLines ==
    UNION { { disk[f][i] : i \in 1..Len(disk[f]) } :
              f \in { p \in DOMAIN disk : StartsWith(p, "tags/") \/ StartsWith(p, "tag_to_items/") } }
      \ { l \in UNION { { disk[f][i] : i \in 1..Len(disk[f]) } : f \in DOMAIN disk } :
            StartsWith(l, "#TAG:") }

\* C21: extraction keeps the items of a tag apart from its tag references: no tag
\* reference is in the item set of a tag or written among its items.
C21_ItemsApartFromReferences ==
    /\ \A item \in b_items : ~is_tag_reference(item)
    /\ \A line \in TagFileLines : ~is_tag_reference(line)

\* ---- claims on the namespace filter ----

\* The namespace the filter is compared with for the entry at index i, None if it has none
NamespaceOf(i) == extract_namespace(Split(zf_namelist[i]))

\* C22: with a namespace filter given, an archive entry whose namespace differs from the
\* filter (letter case ignored) is discarded before any work is done on it: it is never
\* classified, read or recorded.
C22_FilterBeforeWork ==
    namespace_filter # "" =>
        \A k \in 1..Len(e_work) :
            LET i == e_work[k][2] IN
              (NamespaceOf(i) # None /\ Lower(NamespaceOf(i)) # Lower(namespace_filter))
                 => e_work[k][1] \notin {"classify", "read", "record"}

\* ---- claims on the passes of the normalizer ----

\* s without the first entry of the affix table, in table order, that it ends with
FirstAffixOnly(s) ==
    LET matching == { i \in 1..Len(AFFIXES) : EndsWith(s, AFFIXES[i]) } IN
      IF matching = {} THEN s
      ELSE DropSuffix(s, AFFIXES[CHOOSE i \in matching : \A j \in matching : i <= j])

\* C24: a pass of the normalizer removes only the first affix in table order that the
\* identifier ends with, so stacked affixes are peeled one per pass: dirt_top_side is
\* dirt_top after one pass and dirt after the next.
C24_OneAffixPerPass ==
    [][(c_pc = "loop" /\ iterations < CleanerMaxIterations)
         => identifier' = FirstAffixOnly(StripEach(identifier, c_extensions, 1))]_vars

\* ---- claims on the tag records on disk ----

\* the well-formed tag entries the writer has gone through: those of the archives before
\* the current one and those before the current entry of the current archive
WrittenTagEntries ==
    IF b_pc = "done"
      THEN WellFormedEntries
      ELSE UNION { { mods_list[i].files[n] :
                       n \in { k \in 1..Len(mods_list[i].files) :
                                 /\ mods_list[i].files[k].json = "ok"
                                 /\ (i < b_mod \/ k < b_entry) } }
                   : i \in { q \in DOMAIN mods_list : q <= b_mod /\ mods_list[q].readable } }

\* C28: the item set on disk of a tag never shrinks during a scan: between two entries
\* and at the end, every item that was written for a tag id, by whichever archive, is
\* in the file of the tag.
C28_TagRecordNeverShrinks ==
    (b_kind = "tags" /\ b_pc \in {"entry_head", "done"}) =>
        \A e \in WrittenTagEntries :
            SeqToSet(e.values) \subseteq SeqToSet(ReadFile(disk, tag_file(e)))

\* ---- claims on categorization ----

\* C29: categorization reads every tag-to-items file tag discovery wrote: after it, for
\* every such file whose tag name matches the rule of a category, every item of the
\* file that is no tag reference is in the output file of that category.
C29_EveryTagFileCategorized ==
    (b_pc = "categorized") =>
        \A p \in { q \in DOMAIN disk : StartsWith(q, "tag_to_items/") } :
            \A category \in category_names :
                category_rules(category, tag_name_of(disk[p])) =>
                    { item \in SeqToSet(items_in_tag(disk[p])) : ~is_tag_reference(item) }
                        \subseteq SeqToSet(ReadFile(disk, category_file(category)))

\* ---- claims on the archives the discoveries scan ----

\* the number of times an archive stands in a list of scans
ScanCount(scans, name) == Cardinality({ k \in 1..Len(scans) : scans[k] = name })

\* C30: every archive found in the input directory is scanned exactly once by tag
\* discovery and exactly once by recipe discovery, also when two archives resolve to the
\* same mod id: no archive is scanned twice, and at the end none was left out.
C30_EveryArchiveScannedOnce ==
    /\ \A i \in 1..Len(found_jars) :
         /\ ScanCount(tag_scans, found_jars[i].name) <= 1
         /\ ScanCount(recipe_scans, found_jars[i].name) <= 1
    /\ (d_pc = "done") =>
         \A i \in 1..Len(found_jars) :
           /\ ScanCount(tag_scans, found_jars[i].name) = 1
           /\ ScanCount(recipe_scans, found_jars[i].name) = 1

\* ---- claims on the resolver ----

ResolverHalted == r_pc \in {"resolved", "raised"}

\* lexicographic order on tuples of integers of one length
LexLess(a, b) ==
    \E i \in 1..Len(a) : a[i] < b[i] /\ \A j \in 1..(i - 1) : a[j] = b[j]

\* What a run still has before it: the passes the cap leaves, the tags left in the pass,
\* whether the references of the current tag are still to be fetched, the references
\* left of the current tag.
ResolverRank ==
    IF ResolverHalted THEN <<-1, -1, 0, 0>>
    ELSE IF r_pc = "while" THEN <<max_iterations - iteration, -1, 0, 0>>
    ELSE IF r_pc = "for_tag"
           THEN <<max_iterations - iteration, Len(r_snapshot) - r_idx + 1, 1, 0>>
           ELSE <<max_iterations - iteration, Len(r_snapshot) - r_idx + 1, 0,
                  Cardinality(r_todo)>>

\* C6: the resolver halts within the cap of 10 passes for every reference graph,
\* self-references and mutual cycles included: the pass counter never exceeds the cap,
\* and every step of the resolver in a run strictly lowers a rank that is bounded below, so no run can
\* go on forever.
C6_HaltsWithinCap ==
    /\ [](iteration <= max_iterations /\ \A i \in 1..4 : ResolverRank[i] >= -1)
    /\ [][ (r_run' = r_run /\ peer_active' = peer_active)
             => LexLess(ResolverRank', ResolverRank) ]_vars

\* a run over a graph with a cycle has ended after at least two passes
C6_Witness ==
    /\ ResolverHalted
    /\ iteration >= 2
    /\ \E t \in DOMAIN tag_references :
         \/ t \in tag_references[t]
         \/ \E u \in tag_references[t] :
              u \in DOMAIN tag_references /\ t \in tag_references[u]

\* C7: within a run, no step of the resolver removes a tag or an item from the item
\* set of a tag: every item set after a step is a superset of the set before it.
C7_Monotone ==
    [][ r_run' = r_run =>
          \A t \in DOMAIN tags_data :
              t \in DOMAIN tags_data' /\ tags_data[t] \subseteq tags_data'[t] ]_vars

\* a tag has gained an item during resolution, over at least two passes
C7_Witness ==
    /\ r_pc # "idle"
    /\ iteration >= 2
    /\ \E t \in DOMAIN r_input.td : tags_data[t] # r_input.td[t]

\* C8: two runs of the resolver over the same archive that differ only in the order of
\* tags and references end with the same item sets.
C8_OrderIndependent ==
    (r_run = 2 /\ r_pc = "resolved" /\ r_result1.pc = "resolved") => tags_data = r_result1.td

\* no candidate entry of the reference is in the archive (a reference without a
\* namespace names no entry)
Unlocatable(ref) ==
    /\ ref \notin DOMAIN tags_data
    /\ Contains(ref, ":") =>
         \A i \in 1..2 :
           ref_tag_files(SplitHead(ref, ":"), SplitTail(ref, ":"))[i] \notin DOMAIN jar_files

\* C11: a reference that is no known tag and has no candidate entry in the archive
\* never makes the resolution of the archive raise, and the step that handles it adds
\* no item to any tag.
C11_UnresolvedRefHarmless ==
    /\ [](r_pc # "raised")
    /\ [][ \A ref \in r_todo :
             (r_pc = "for_ref" /\ r_todo' = r_todo \ {ref} /\ Unlocatable(ref))
               => tags_data' = tags_data ]_vars

\* C15: tag reference resolution runs only after the concurrent scan has finished
\* with every archive: while the resolver is inside its loop (lines 907-966) no
\* scan worker of the pool is active.
Resolving == r_pc \in {"while", "for_tag", "for_ref"}

C15_ResolverAfterScan == Resolving => ~peer_active

\* the archive of example scenario 1: item tags modA:dusts/iron and modB:dusts/iron
\* with one item each, the first referring to the second, the second to nothing or
\* back to the first
ExampleScenario ==
    /\ r_pc # "idle"
    /\ DOMAIN r_input.td = {TagA, TagB}
    /\ r_input.td[TagA] = {"modA:iron_dust"}
    /\ r_input.td[TagB] = {"modB:iron_dust"}
    /\ r_input.tr[TagA] = {TagB}
    /\ r_input.tr[TagB] \subseteq {TagA}

OpenCount == Cardinality(DOMAIN open_handles)
CachedHandles == RangeOf(file_cache)

\* C5: at no point of a run are more output handles open than distinct output paths
\* have been touched (opened) since the current batch began.
C5_HandlesBounded == OpenCount <= Cardinality(touched)

\* in a batch after the first, a cached handle and the handle of a `with` block are
\* open at once
C5_Witness ==
    /\ batch_start > 0
    /\ OpenCount >= 2
    /\ OpenCount = Cardinality(touched)

\* what the files hold is what the writer has recorded as written
DiskComplete ==
    /\ \A key \in DOMAIN item_to_tags_written :
         SeqToSet(ReadFile(disk, item_file_path(key))) = item_to_tags_written[key]
    /\ \A t \in DOMAIN recipe_counts_by_type :
         Len(SelectSeq(ReadFile(disk, type_file(sanitize_filename(t))),
                       LAMBDA line : \E i \in 1..Len(ModIds) : line = ModIds[i] \o ":r"))
           = recipe_counts_by_type[t]

\* C10: at every batch boundary every cached handle has been flushed and closed and the
\* cache is empty, so the files hold everything written so far; a handle that is cached
\* was opened in append mode, so what earlier batches wrote to its file is still there.
C10_BoundaryClosesCache ==
    /\ b_pc \in {"batch_head", "final", "done"} =>
         /\ file_cache = <<>>
         /\ open_handles = <<>>
         /\ DiskComplete
    /\ \A h \in CachedHandles : h \in DOMAIN open_handles /\ open_handles[h].mode = "a"

\* a boundary has been passed, and before it a key that an earlier batch had written
\* was written again: the file holds the lines of both batches
C10_Witness ==
    /\ b_kind = "tags"
    /\ b_pc = "batch_head"
    /\ batch_start > BATCH_SIZE
    /\ \E key \in DOMAIN item_to_tags_written :
         /\ Cardinality(item_to_tags_written[key]) >= 2
         /\ \E i \in 1..BATCH_SIZE, j \in (BATCH_SIZE + 1)..Len(mods_list) :
              /\ mods_list[i].files # <<>> /\ mods_list[j].files # <<>>
              /\ mods_list[i].files[1].tag_name # mods_list[j].files[1].tag_name
              /\ \A k \in 1..Len(mods_list) : k \notin {i, j} => mods_list[k].files = <<>>

\* C9: the normalizer is idempotent: clean(clean(x)) = clean(x) for every identifier x.
\* the entries of the suffix pool that are affixes of the table, and its extensions
PoolAffixes == { i \in 1..Len(SuffixPool) : \E k \in 1..Len(AFFIXES) : AFFIXES[k] = SuffixPool[i] }

PoolExtensions == { SuffixPool[i] : i \in (1..Len(SuffixPool)) \ PoolAffixes }

\* identifiers made of a base, a stack of affixes and, possibly, an extension
AffixStacks ==
    { [in |-> Concat(b, idxs) \o ext, base |-> b, ext |-> ext] :
        b \in CleanBases,
        idxs \in UNION { [1..n -> PoolAffixes] : n \in 0..(MaxStack - 1) },
        ext \in PoolExtensions \cup {""} }
      \cup { [in |-> Repeat("a", "_top", k), base |-> "a", ext |-> ""] : k \in 0..MaxDepth }

\* C19: a base name followed by any stack of affixes of the table and then a recognised
\* extension cleans to the base name (stone_top_side.png to stone, dirt_top_side to dirt).
C19_StackCleansToBase ==
    (c_pc = "return" /\ c_call = 1) =>
        \A r \in AffixStacks :
            ( /\ c_input = r.in
              /\ r.ext # "" => \E i \in 1..Len(c_extensions) : c_extensions[i] = r.ext )
              => identifier = r.base

C9_Idempotent == (c_pc = "done") => (identifier = c_first)

====
